---- MODULE Spec2Model ----
(***************************************************************************)
(* bart-loop: the task orchestration engine.                               *)
(*                                                                         *)
(* The model follows cli.ts (run / reset commands, runAgent, the signal    *)
(* handler, the advisory lock), tasks.ts (findNextTask) and                *)
(* specialists.ts (the history ledger).  Every bart process is an OS       *)
(* process of its own: the task document, the lock file and the history    *)
(* ledger are files shared by all of them, and a read and the write that   *)
(* follows it are two steps, between which the other processes may run.    *)
(* Timestamps and messages are abstracted to "null / not null".            *)
(***************************************************************************)
EXTENDS Integers, Sequences, FiniteSets, TLC

(***************************** bounds ***************************************)
NTasks == 3
NProcs == 2
MaxResets == 2
\* the model stops a run-all loop after MaxIter iterations and the ledger
\* at MaxHist entries
MaxIter == 4
MaxHist == 3
\* the ledger of the one-command-at-a-time specification stops at MaxLedger
MaxLedger == 5
\* matchSpecialist is tried on up to MaxKw file keywords and MaxWords words
MaxKw == 3
MaxWords == 44
\* the long unattended run stops after MaxRounds loop iterations
MaxRounds == 102
\* the specialist model of the recordPairing specification stops at MaxPairs
MaxPairs == 3
\* the history given to computeSpecialistStats has at most MaxEntries entries
MaxEntries == 5
\* the history file given to loadHistory has at most MaxLines lines
MaxLines == 5
\* the document written and read back has at most MaxDocTasks tasks
MaxDocTasks == 2
\* at most MaxStops `bart stop` commands write one stop file
MaxStops == 2
\* a process is sent at most MaxSignals termination signals
MaxSignals == 2

(***************************** program constants ****************************)
\* main: if (iterations > 100) break
SafetyLimit == 100
\* main: setTimeout(resolve, 5000); waited += 5; while (waited < 120)
PollSeconds == 5
WaitCeiling == 120
\* runAgent: sameTaskFailures >= 3, wsErrors >= 3
CriticalThreshold == 3

Tasks == 1..NTasks
Procs == 1..NProcs

\* A dependency id that names no task of the document.
MissingId == 0
NoTask == 0
NoLock == 0
\* Stands for the "workstream" the wait report gives a dependency id that
\* names no task (dep?.workstream || depId).
MissingWs == "missing"

Workstreams == {"A", "B"}
NoFilter == ""
ThisPlan == "plan"
OtherPlan == "other"

\* The shells from which `bart reset` is issued; each runs one command at
\* a time, every command a process of its own.
Shells == {"s1", "s2"}

(***************************** the task document ***************************)
Statuses == {"pending", "in_progress", "completed", "error"}

NewTask == [status |-> "pending", started_at |-> FALSE,
            completed_at |-> FALSE, error |-> FALSE]

\* The task documents the model starts from: what `bart plan` writes.
FreshDoc == [t \in Tasks |-> NewTask]

\* Value of a process's local TasksData when it holds none.
NoSnap == << >>

\* workstream and depends_on of every task; never changed by a run.
AltWs == [t \in Tasks |-> IF t % 2 = 1 THEN "A" ELSE "B"]
OneWs == [t \in Tasks |-> "A"]

ChainGraph == [ws |-> AltWs,
               deps |-> [t \in Tasks |-> IF t = 1 THEN {}
                                         ELSE IF t = NTasks THEN {MissingId}
                                         ELSE {t - 1}]]
ParGraph == [ws |-> AltWs, deps |-> [t \in Tasks |-> {}]]
Graphs == {ChainGraph, ParGraph}
\* every task in one workstream, no dependencies
\* Every task depends on the one before it in its own workstream.
StrideGraph == [ws |-> AltWs,
                deps |-> [t \in Tasks |-> IF t > 2 THEN {t - 2} ELSE {}]]
FlatGraph == [ws |-> OneWs, deps |-> [t \in Tasks |-> {}]]

(***************************** tasks.ts *************************************)
\* Faulty variant: a dependency id that names no task counts as met.
allDepsMet_missingOk(d, g, t) ==
    \A depId \in g.deps[t] : depId \notin Tasks \/ d[depId].status = "completed"

\* deps.every(depId => tasks.find(t => t.id === depId)?.status === "completed")
allDepsMet(d, g, t) ==
    \A depId \in g.deps[t] : depId \in Tasks /\ d[depId].status = "completed"

Min(S) == CHOOSE x \in S : \A y \in S : x <= y

\* the largest element of S, 0 for the empty set
Max0(S) == IF S = {} THEN 0 ELSE CHOOSE x \in S : \A y \in S : y <= x

\* Faulty variant: tasks are not filtered by status "pending".
Eligible_anyStatus(d, g, workstream) ==
    {t \in Tasks : /\ ~(workstream # NoFilter /\ g.ws[t] # workstream)
                   /\ allDepsMet(d, g, t)}

\* The pending tasks that pass the workstream filter and whose dependencies
\* are met; the loop returns the first of them in document order.
Eligible(d, g, workstream) ==
    {t \in Tasks : /\ d[t].status = "pending"
                   /\ ~(workstream # NoFilter /\ g.ws[t] # workstream)
                   /\ allDepsMet(d, g, t)}

\* Faulty variant: the last eligible task of the document, not the first.
findNextTask_last(d, g, workstream) ==
    IF Eligible(d, g, workstream) = {} THEN NoTask
    ELSE Max0(Eligible(d, g, workstream))

findNextTask(d, g, workstream) ==
    IF Eligible(d, g, workstream) = {} THEN NoTask
    ELSE Min(Eligible(d, g, workstream))

(***************************** specialists.ts: history **********************)
\* A faulty entry that always names the legacy plan.
HistoryEntry_otherPlan(ev, t, plan, n) ==
    [event |-> ev, task_id |-> t, plan_slug |-> OtherPlan, resets |-> n]

HistoryEntry(ev, t, plan, n) ==
    [event |-> ev, task_id |-> t, plan_slug |-> plan, resets |-> n]

\* A faulty ledger write that puts the new line first.
appendHistory_front(h, entry) == <<entry>> \o h

\* appendHistory: appendFileSync(historyPath, JSON.stringify(entry) + "\n")
appendHistory(h, entry) == Append(h, entry)

countResetsForTask(h, taskId, planSlug) ==
    Cardinality({i \in 1..Len(h) : /\ h[i].event = "reset"
                                   /\ h[i].task_id = taskId
                                   /\ h[i].plan_slug = planSlug})

\* countWorkstreamErrors: the task ids with an "error" entry for the
\* workstream and plan, less every id with a "completed" entry for them,
\* wherever in the ledger that entry stands.  An entry's workstream is the
\* workstream of its task.
countWorkstreamErrors(h, g, workstream, planSlug) ==
    LET InScope(i) == /\ h[i].plan_slug = planSlug
                      /\ h[i].task_id \in Tasks
                      /\ g.ws[h[i].task_id] = workstream
        erroredTasks == {h[i].task_id : i \in {j \in 1..Len(h) :
                                            h[j].event = "error" /\ InScope(j)}}
        completedTasks == {h[i].task_id : i \in {j \in 1..Len(h) :
                                            h[j].event = "completed" /\ InScope(j)}}
    IN Cardinality(erroredTasks \ completedTasks)

(***************************** cli.ts: escalation ***************************)
\* runAgent: if (sameTaskFailures >= 3) critical else if (wsErrors >= 3) critical
Escalation(failures, wsErrors) ==
    IF failures >= CriticalThreshold THEN "task"
    ELSE IF wsErrors >= CriticalThreshold THEN "workstream"
    ELSE "none"

(***************************** cli.ts: milestones ***************************)
MILESTONE_THRESHOLDS == {25, 50, 80, 100}

\* Math.round(x / y * 100) for 0 <= x <= y, y > 0
RoundPct(x, y) == (200 * x + y) \div (2 * y)

CompletedCount(d) == Cardinality({t \in Tasks : d[t].status = "completed"})

\* thresholds already passed at percentage pct
Passed(pct) == {th \in MILESTONE_THRESHOLDS : pct >= th}

(***************************** specialists.ts: matchSpecialist *************)
(* A call is described by what the function looks at: the specialists in   *)
(* list order, the bracketed tokens of the title in order, the entries of  *)
(* the model (per specialist how many, how many of them successes and the  *)
(* similarity-weighted success rate in thousandths, and the entries of     *)
(* specialists not in the list), the number of keywords the task's files   *)
(* give and how many of them each description contains, the number of      *)
(* words of the task's text and how many occur in each description.        *)
AUTO_MATCH_CONFIDENCE_THRESHOLD == 80
SpecialistNames == {"alpha", "beta"}
NoSpecialist == "null"
NoTag == "none"
NoConfidence == 0 - 1
MIN_SAMPLES_FOR_TRUST == 5
\* confidences are counted in ten-thousandths
ConfidenceUnit == 10000

\* String.toLowerCase on the tokens and names in use
Lower(x) == IF x = "ALPHA" THEN "alpha" ELSE x

\* task.title.match(/\[([^\]]+)\]/): the first bracketed token, lower-cased
TagName(task) == IF Len(task.tags) = 0 THEN NoTag ELSE Lower(task.tags[1])

\* model.entries.length
ModelEntries(task) ==
    task.others + task.samples["alpha"] + task.samples["beta"]

\* Faulty variant: a specialist is scored on any number of entries.
modelConfidence_anySample(task, n) ==
    IF task.samples[n] = 0 THEN NoConfidence
    ELSE (4000 \div task.samples[n]) * task.successes[n] + 6 * task.wRate[n]

\* modelConfidence: null below MIN_SAMPLES_FOR_TRUST entries of the
\* specialist, else 0.4 * successRate + 0.6 * weightedRate
modelConfidence(task, n) ==
    IF task.samples[n] < MIN_SAMPLES_FOR_TRUST THEN NoConfidence
    ELSE (4000 \div task.samples[n]) * task.successes[n] + 6 * task.wRate[n]

ModelScores(task) == [n \in SpecialistNames |-> modelConfidence(task, n)]

\* The loops `if (score > bestScore) { bestScore = score; bestMatch = s }`
\* starting from bestScore = 0: the first specialist of the list with the
\* highest score, if that score is positive.
BestScore(list, score) ==
    LET top == Max0({score[list[i]] : i \in 1..Len(list)})
    IN top

\* Faulty variant: the first specialist of the list, not the best.
BestMatch_first(list, score) ==
    IF BestScore(list, score) <= 0 THEN NoSpecialist ELSE list[1]

BestMatch(list, score) ==
    IF BestScore(list, score) <= 0 THEN NoSpecialist
    ELSE list[Min({i \in 1..Len(list) : score[list[i]] = BestScore(list, score)})]

NoMatch == [called |-> TRUE, name |-> NoSpecialist, via |-> "none", num |-> 0, den |-> 0]

matchSpecialist(task) ==
    LET list == task.specialists
        inList(n) == \E i \in 1..Len(list) : Lower(list[i]) = n
        found(n) == list[Min({i \in 1..Len(list) : Lower(list[i]) = n})]
        byModel == BestMatch(list, ModelScores(task))
        byFiles == BestMatch(list, task.kwScore)
        byWords == BestMatch(list, task.wordScore)
    IN IF Len(list) = 0 THEN NoMatch
       ELSE IF TagName(task) # NoTag /\ inList(TagName(task))
       THEN [called |-> TRUE, name |-> found(TagName(task)), via |-> "tag",
             num |-> 0, den |-> 0]
       ELSE IF /\ ModelEntries(task) >= MIN_SAMPLES_FOR_TRUST
               /\ byModel # NoSpecialist
               /\ BestScore(list, ModelScores(task)) * 100
                     >= AUTO_MATCH_CONFIDENCE_THRESHOLD * ConfidenceUnit
       THEN [called |-> TRUE, name |-> byModel, via |-> "model",
             num |-> BestScore(list, ModelScores(task)), den |-> ConfidenceUnit]
       ELSE IF /\ task.kw > 0
               /\ byFiles # NoSpecialist
               /\ BestScore(list, task.kwScore) >= 2
               /\ RoundPct(BestScore(list, task.kwScore), task.kw)
                     >= AUTO_MATCH_CONFIDENCE_THRESHOLD
       THEN [called |-> TRUE, name |-> byFiles, via |-> "files",
             num |-> BestScore(list, task.kwScore), den |-> task.kw]
       ELSE IF /\ byWords # NoSpecialist
               /\ BestScore(list, task.wordScore) >= 2
               /\ (IF task.words > 0
                   THEN RoundPct(BestScore(list, task.wordScore), task.words)
                   ELSE 0) >= AUTO_MATCH_CONFIDENCE_THRESHOLD
       THEN [called |-> TRUE, name |-> byWords, via |-> "words",
             num |-> BestScore(list, task.wordScore), den |-> task.words]
       ELSE NoMatch

(***************************** specialists.ts: the specialist model ********)
\* Task.specialist: the last task has none, the others have one.
SpecialistOf == [t \in Tasks |-> IF t = NTasks THEN NoSpecialist
                                 ELSE IF t % 2 = 1 THEN "alpha" ELSE "beta"]

\* recordPairing: the entry pushed (the task id stands for its features)
PairingEntry(t, success) ==
    [specialist |-> SpecialistOf[t], task_id |-> t, success |-> success]

\* recordPairing, load, push and save with nothing in between
recordPairing(m, t, success) ==
    IF SpecialistOf[t] = NoSpecialist THEN m ELSE Append(m, PairingEntry(t, success))

(***************************** specialists.ts: computeSpecialistStats ******)
(* An entry is described by the two fields the function reads for its      *)
(* counts, event and specialist.  duration_ms and the average built from   *)
(* it are left out.  reset_rate is a quotient of two counts and is kept as *)
(* the fraction num / den.                                                 *)
DefaultAgent == "(default agent)"

\* e.specialist || "(default agent)"
StatName(e) == IF e.specialist = NoSpecialist THEN DefaultAgent ELSE e.specialist

NewTally == [total |-> 0, completed |-> 0, errored |-> 0, resets |-> 0]

tallyEntry_resetsInTotal(stats, e) ==
    IF e.event = "completed"
    THEN [stats EXCEPT !.total = @ + 1, !.completed = @ + 1]
    ELSE IF e.event = "error"
    THEN [stats EXCEPT !.total = @ + 1, !.errored = @ + 1]
    ELSE IF e.event = "reset"
    THEN [stats EXCEPT !.total = @ + 1, !.resets = @ + 1]
    ELSE stats

\* the if / else if chain of the loop body
tallyEntry(stats, e) ==
    IF e.event = "completed"
    THEN [stats EXCEPT !.total = @ + 1, !.completed = @ + 1]
    ELSE IF e.event = "error"
    THEN [stats EXCEPT !.total = @ + 1, !.errored = @ + 1]
    ELSE IF e.event = "reset"
    THEN [stats EXCEPT !.resets = @ + 1]
    ELSE stats

\* the Map after the loop over entries[1..n]: its keys in insertion order
\* and the value of each key
RECURSIVE TallyMap(_, _)
TallyMap(entries, n) ==
    IF n = 0
    THEN [keys |-> << >>, val |-> [x \in {} |-> NewTally]]
    ELSE LET m == TallyMap(entries, n - 1)
             e == entries[n]
             name == StatName(e)
             has == name \in DOMAIN m.val
             old == IF has THEN m.val[name] ELSE NewTally
         IN [keys |-> IF has THEN m.keys ELSE Append(m.keys, name),
             val |-> [x \in DOMAIN m.val \cup {name} |->
                        IF x = name THEN tallyEntry(old, e) ELSE m.val[x]]]

\* total > 0 ? data.resets / total : 0
ResetRate(resets, total) ==
    IF total > 0 THEN [num |-> resets, den |-> total] ELSE [num |-> 0, den |-> 1]

StatsRow(name, data) ==
    [name |-> name, total |-> data.total, completed |-> data.completed,
     errored |-> data.errored,
     reset_rate |-> ResetRate(data.resets, data.total),
     total_resets |-> data.resets]

\* result.sort((a, b) => b.total - a.total): stable, larger totals first
RECURSIVE SortByTotal(_)
SortByTotal(rows) ==
    IF rows = << >> THEN << >>
    ELSE LET front == SortByTotal(SubSeq(rows, 1, Len(rows) - 1))
             last == rows[Len(rows)]
             k == Cardinality({i \in DOMAIN front : front[i].total >= last.total})
         IN SubSeq(front, 1, k) \o <<last>> \o SubSeq(front, k + 1, Len(front))

computeSpecialistStats(entries) ==
    LET m == TallyMap(entries, Len(entries))
    IN SortByTotal([i \in DOMAIN m.keys |-> StatsRow(m.keys[i], m.val[m.keys[i]])])

(***************************** specialists.ts: loadHistory ******************)
(* A line of the file is an entry written by appendHistory (numbered, to    *)
(* tell entries apart), another JSON value such as null or 7, an empty or   *)
(* blank line, text that is no JSON, or an entry cut short by a crash       *)
(* during the append.                                                       *)
JsonLine(i) == [kind |-> "entry", id |-> i]
OtherLine(k) == [kind |-> k, id |-> 0]

\* !line.trim()
IsBlank(line) == line.kind = "blank"

\* JSON.parse(line): the value, or thrown
JSONparse(line) ==
    IF line.kind = "entry" THEN [thrown |-> FALSE, value |-> line.id]
    ELSE IF line.kind = "scalar" THEN [thrown |-> FALSE, value |-> 0]
    ELSE [thrown |-> TRUE]

onParseError_rethrown(acc) == [acc EXCEPT !.failed = TRUE]

\* catch {}
onParseError(acc) == acc

\* the loop over content.split("\n"), lines 1..n
RECURSIVE loadLines(_, _)
loadLines(lines, n) ==
    IF n = 0 THEN [failed |-> FALSE, entries |-> << >>]
    ELSE LET acc == loadLines(lines, n - 1)
             line == lines[n]
         IN IF acc.failed THEN acc
            ELSE IF IsBlank(line) THEN acc
            ELSE IF JSONparse(line).thrown THEN onParseError(acc)
            ELSE [acc EXCEPT !.entries = Append(@, JSONparse(line).value)]

loadHistory(lines) == loadLines(lines, Len(lines))

(***************************** JSON.stringify and JSON.parse ****************)
(* writeFileSync(tasksPath, JSON.stringify(tasksData, null, 2)) and         *)
(* readTasks.  A value in memory is undefined, null, a string or a list of  *)
(* strings; a property of a task in memory is absent or holds a value.  The *)
(* text of an object is the list of its members, key and JSON value, in     *)
(* the order of the keys.                                                   *)
Absent == [k |-> "absent"]
Undefined == [k |-> "undefined"]
Null == [k |-> "null"]
Str(x) == [k |-> "string", v |-> x]
List(x) == [k |-> "list", v |-> x]

TaskKeys == <<"id", "status", "started_at", "requirements", "specialist">>

\* a property with no member in the text: an absent key and a key that
\* holds undefined are both left out
omitted_onlyAbsent(value) == value.k = "absent"

omitted(value) == value.k \in {"absent", "undefined"}

\* the JSON value written for a value in memory (undefined that is not
\* left out is written as null)
toJSON(value) ==
    IF value.k = "undefined" THEN [j |-> "null"]
    ELSE IF value.k = "null" THEN [j |-> "null"]
    ELSE IF value.k = "string" THEN [j |-> "string", v |-> value.v]
    ELSE [j |-> "array", v |-> value.v]

\* the value in memory for a JSON value read
fromJSON(json) ==
    IF json.j = "null" THEN Null
    ELSE IF json.j = "string" THEN Str(json.v)
    ELSE List(json.v)

\* JSON.stringify of a task: its members for the keys 1..n
RECURSIVE stringifyTask(_, _)
stringifyTask(task, n) ==
    IF n = 0 THEN << >>
    ELSE LET key == TaskKeys[n]
             rest == stringifyTask(task, n - 1)
         IN IF omitted(task[key]) THEN rest
            ELSE Append(rest, [key |-> key, value |-> toJSON(task[key])])

\* JSON.parse of a task's text
parseTask(members) ==
    [key \in {TaskKeys[i] : i \in DOMAIN TaskKeys} |->
        IF \E m \in DOMAIN members : members[m].key = key
        THEN LET m == CHOOSE m \in DOMAIN members : members[m].key = key
             IN fromJSON(members[m].value)
        ELSE Absent]

stringify(tasksData) ==
    [i \in DOMAIN tasksData |-> stringifyTask(tasksData[i], Len(TaskKeys))]

parse(content) == [i \in DOMAIN content |-> parseTask(content[i])]

\* task.key as the program reads it: undefined for an absent key
Field(task, key) == IF task[key].k = "absent" THEN Undefined ELSE task[key]

(***************************** notify.ts: sendTelegram **********************)
\* What a call meets: no token or chat id in the configuration, a service
\* that answers ok, a service that answers with an error status, or a fetch
\* that throws (no network, DNS failure).
Nets == {"unconfigured", "up", "rejecting", "down"}

sendTelegram_uncaught(net) ==
    IF net = "unconfigured" THEN "returned"
    ELSE IF net = "down" THEN "thrown"
    ELSE "returned"

\* How the promise of sendTelegram settles: the early return without
\* settings; res.ok; console.error on a bad status; console.error in the
\* catch block.
sendTelegram(net) ==
    IF net = "unconfigured" THEN "returned"
    ELSE IF net = "down" THEN "returned"
    ELSE "returned"

(***************************** state ****************************************)
VARIABLES
    graph,          \* workstream / depends_on of the tasks (fixed per behaviour)
    doc,            \* tasks.json on disk
    lock,           \* bart.lock: NoLock or the pid written in it
    history,        \* history.jsonl
    alive,          \* alive[p]: process p exists
    pc,             \* position of process p in main / runAgent
    filter,         \* --workstream of process p (NoFilter: none)
    specific,       \* task id given to `bart run <id>` (NoTask: run all)
    next,           \* taskId handed to runAgent
    snap,           \* the TasksData a process has read and is about to write
    currentTaskId,  \* module-level currentTaskId
    currentChild,   \* "none", "running", "killed" (SIGTERM sent)
    shuttingDown,   \* module-level shuttingDown
    firedMilestones,\* the run's firedMilestones set
    waited,         \* seconds waited in the dependency-wait loop
    iterations,     \* iterations of the run-all loop
    exitStatus,     \* exit status of a finished process ("none" while it runs)
    notified,       \* milestone notifications sent by the process, per threshold
    startPct,       \* completed percentage when the process's run began
    rpc, rtask, rsnap, rprev, resetsDone,  \* the `bart reset` command
    sameTaskFailures, \* runAgent's sameTaskFailures (0 outside the error path)
    critical,       \* the critical notification a failed run has sent
    mTask,          \* matchSpecialist: the task, the specialists and the model
    mResult,        \* matchSpecialist: what it returned
    stopFile,       \* .bart/stop exists
    lastNote,       \* the run-all loop's last notice before it ends
    pairings,       \* specialist-model.json: the entries of the model
    pairPc,         \* recordPairing of a process: "idle" or "loaded"
    pairCopy,       \* recordPairing: the model as loaded
    pairEntry,      \* recordPairing: the entry to push
    statEntries,    \* computeSpecialistStats: the entries it is given
    statResult,     \* computeSpecialistStats: what it returned
    stopWrites,     \* `bart stop` commands that wrote the stop file now on disk
    signalsSeen,    \* termination signals delivered to the process
    telegram,       \* the Telegram settings and service (fixed per behaviour)
    histLines,      \* loadHistory: the lines of history.jsonl as read
    loaded,         \* loadHistory: how the call ended and what it returned
    memDoc,         \* a TasksData document in memory, about to be written
    reloaded,       \* readTasks of the file written from memDoc
    shPc,           \* bart.sh: where the script is, "idle" when not started
    WORKSTREAM,     \* bart.sh: the --workstream option, "" without it
    local_next,     \* bart.sh: the task the main loop picked
    task_exit,      \* bart.sh: the status the main loop kept for the task
    CONSECUTIVE_FAILURES,   \* bart.sh: the main loop's failure counter
    taskLocks,      \* bart.sh: tasks with a <id>.lock file of this script
    shExit          \* bart.sh: exit status of the script, "none" while it runs

vars == <<graph, doc, lock, history, alive, pc, filter, specific, next, snap,
          currentTaskId, currentChild, shuttingDown, firedMilestones, waited,
          iterations, exitStatus, notified, startPct, rpc, rtask, rsnap, rprev, resetsDone,
          sameTaskFailures, critical, mTask, mResult, stopFile, lastNote,
          pairings, pairPc, pairCopy, pairEntry, statEntries, statResult,
          stopWrites, signalsSeen, telegram, histLines, loaded,
          memDoc, reloaded, shPc, WORKSTREAM, local_next, task_exit,
          CONSECUTIVE_FAILURES, taskLocks, shExit>>

ctlVars == <<alive, pc, filter, specific, next, snap, currentTaskId,
             currentChild, shuttingDown, firedMilestones, waited, iterations,
             exitStatus, notified, startPct, signalsSeen>>
resetVars == <<rpc, rtask, rsnap, rprev, resetsDone>>
escVars == <<sameTaskFailures, critical>>
matchVars == <<mTask, mResult>>
loopVars == <<stopFile, lastNote, stopWrites>>
pairVars == <<pairings, pairPc, pairCopy, pairEntry>>
statVars == <<statEntries, statResult>>
loadVars == <<histLines, loaded>>
tripVars == <<memDoc, reloaded>>
shVars == <<shPc, WORKSTREAM, local_next, task_exit, CONSECUTIVE_FAILURES,
            taskLocks, shExit>>

NoneNotified == [th \in MILESTONE_THRESHOLDS |-> 0]

InitProcs ==
    /\ alive = [p \in Procs |-> FALSE]
    /\ pc = [p \in Procs |-> "idle"]
    /\ filter = [p \in Procs |-> NoFilter]
    /\ specific = [p \in Procs |-> NoTask]
    /\ next = [p \in Procs |-> NoTask]
    /\ snap = [p \in Procs |-> NoSnap]
    /\ currentTaskId = [p \in Procs |-> NoTask]
    /\ currentChild = [p \in Procs |-> "none"]
    /\ shuttingDown = [p \in Procs |-> FALSE]
    /\ signalsSeen = [p \in Procs |-> 0]
    /\ firedMilestones = [p \in Procs |-> {}]
    /\ waited = [p \in Procs |-> 0]
    /\ iterations = [p \in Procs |-> 0]
    /\ exitStatus = [p \in Procs |-> "none"]
    /\ notified = [p \in Procs |-> NoneNotified]
    /\ startPct = [p \in Procs |-> 0]

InitReset ==
    /\ rpc = [u \in Shells |-> "idle"]
    /\ rtask = [u \in Shells |-> NoTask]
    /\ rsnap = [u \in Shells |-> NoSnap]
    /\ rprev = [u \in Shells |-> 0]
    /\ resetsDone = 0

\* main: the notices of the run-all loop, "Bart run stopped by user" and
\* formatWorkstreamBlocked(workstream, [...depsFromOtherWs]).
NoNote == [kind |-> "none", on |-> {}]
StoppedNote == [kind |-> "stopped", on |-> {}]
BlockedNote(blockers) == [kind |-> "blocked", on |-> blockers]

InitLoop ==
    /\ stopFile = FALSE
    /\ lastNote = [p \in Procs |-> NoNote]
    /\ stopWrites = 0

NoMatchCall == [called |-> FALSE]

NoEntry == [specialist |-> NoSpecialist, task_id |-> NoTask, success |-> FALSE]

InitPair ==
    /\ pairings = << >>
    /\ pairPc = [p \in Procs |-> "idle"]
    /\ pairCopy = [p \in Procs |-> << >>]
    /\ pairEntry = [p \in Procs |-> NoEntry]

NoStats == [called |-> FALSE]

NotLoaded == [called |-> FALSE]

NotRead == [called |-> FALSE]

InitTrip ==
    /\ memDoc = << >>
    /\ reloaded = NotRead

\* bart.sh has not been started
InitSh ==
    /\ shPc = "idle"
    /\ WORKSTREAM = NoFilter
    /\ local_next = NoTask
    /\ task_exit = 0
    /\ CONSECUTIVE_FAILURES = 0
    /\ taskLocks = {}
    /\ shExit = "none"

InitLoad ==
    /\ histLines = << >>
    /\ loaded = NotLoaded

\* no bot token or chat id in ~/.bart/config.json
InitNet == telegram = "unconfigured"

InitStat ==
    /\ statEntries = << >>
    /\ statResult = NoStats

InitMatch ==
    /\ mTask = NoMatchCall
    /\ mResult = NoMatchCall

InitEsc ==
    /\ sameTaskFailures = [p \in Procs |-> 0]
    /\ critical = [p \in Procs |-> "none"]

\* A fresh plan; the shared ledger may already hold entries of another plan.
Init ==
    /\ graph \in Graphs
    /\ doc = FreshDoc
    /\ lock = NoLock
    /\ history \in {<< >>, <<HistoryEntry("reset", 1, OtherPlan, 1)>>}
    /\ InitProcs
    /\ InitReset
    /\ InitEsc
    /\ InitLoop
    /\ InitMatch
    /\ InitPair
    /\ InitNet
    /\ InitSh
    /\ InitTrip
    /\ InitLoad
    /\ InitStat


(***************************** cli.ts: stop signal **************************)
\* checkStopSignal: existsSync(stopPath)
checkStopSignal(sf) == sf

\* Faulty variant: the stop file is left in place.
unlinkStop_kept(sf) == sf

\* checkStopSignal: unlinkSync(stopPath)
unlinkStop(sf) == FALSE

(***************************** cli.ts: lock *********************************)
\* Faulty variant: the holder is not probed with process.kill(pid, 0).
isAnotherBartRunning_noProbe(p, lk, al) ==
    /\ lk # NoLock
    /\ lk # p

\* isAnotherBartRunning: the lock file exists, holds a pid other than ours,
\* and process.kill(pid, 0) finds that process.
isAnotherBartRunning(p, lk, al) ==
    /\ lk # NoLock
    /\ lk # p
    /\ al[lk]

\* releaseLock: existsSync(lockPath) and pid === String(process.pid)
ownsLock(p, lk) == lk = p

\* releaseLock, the read and the unlink with nothing in between: unlink only
\* when the file holds our own pid.
releaseLock(p, lk) == IF lk = p THEN NoLock ELSE lk

(***************************** cli.ts: task updates *************************)
\* stale-task recovery (main) and resetInProgressTask (signal handler)
Reverted(task) == [task EXCEPT !.status = "pending", !.started_at = FALSE]

RecoverStale(d) ==
    [t \in Tasks |-> IF d[t].status = "in_progress" THEN Reverted(d[t]) ELSE d[t]]

resetInProgressTask(d, taskId) ==
    IF taskId \in Tasks /\ d[taskId].status = "in_progress"
    THEN [d EXCEPT ![taskId] = Reverted(d[taskId])]
    ELSE d

\* runAgent, before the agent is spawned
MarkInProgress(d, taskId) ==
    [d EXCEPT ![taskId].status = "in_progress", ![taskId].started_at = TRUE]

\* runAgent, agent exited with a non-zero code
MarkError(d, taskId) ==
    [d EXCEPT ![taskId].status = "error", ![taskId].error = TRUE]

\* runAgent, agent exited with code 0
MarkCompleted(d, taskId) ==
    [d EXCEPT ![taskId].status = "completed", ![taskId].completed_at = TRUE]

\* Faulty variant: the error message is not cleared.
ResetTask_keepsError(d, taskId) ==
    [d EXCEPT ![taskId].status = "pending", ![taskId].started_at = FALSE,
              ![taskId].completed_at = FALSE]

\* `bart reset <task-id>`
ResetTask(d, taskId) ==
    [d EXCEPT ![taskId] = [status |-> "pending", started_at |-> FALSE,
                           completed_at |-> FALSE, error |-> FALSE]]

(***************************** process bookkeeping **************************)
\* The process is gone: its memory with it.
Die(p, status) ==
    /\ alive' = [alive EXCEPT ![p] = FALSE]
    /\ pc' = [pc EXCEPT ![p] = "dead"]
    /\ exitStatus' = [exitStatus EXCEPT ![p] = status]
    /\ filter' = [filter EXCEPT ![p] = NoFilter]
    /\ next' = [next EXCEPT ![p] = NoTask]
    /\ snap' = [snap EXCEPT ![p] = NoSnap]
    /\ currentTaskId' = [currentTaskId EXCEPT ![p] = NoTask]
    /\ currentChild' = [currentChild EXCEPT ![p] = "none"]
    /\ shuttingDown' = [shuttingDown EXCEPT ![p] = FALSE]
    /\ signalsSeen' = [signalsSeen EXCEPT ![p] = 0]
    /\ firedMilestones' = [firedMilestones EXCEPT ![p] = {}]
    /\ waited' = [waited EXCEPT ![p] = 0]
    /\ iterations' = [iterations EXCEPT ![p] = 0]
    /\ notified' = [notified EXCEPT ![p] = NoneNotified]
    /\ startPct' = [startPct EXCEPT ![p] = 0]
    /\ specific' = [specific EXCEPT ![p] = NoTask]

Goto(p, label) == pc' = [pc EXCEPT ![p] = label]

(***************************** cli.ts: `bart run` ***************************)
\* main, case "run": the command line is parsed (a workstream filter or a
\* specific task), the signal handlers are installed, the lock is probed
\* and, unless another bart is running, the document is read for stale
\* tasks.
Start(p) ==
    /\ pc[p] = "idle"
    /\ \E ws \in Workstreams \cup {NoFilter}, t \in Tasks \cup {NoTask} :
          /\ (t = NoTask \/ ws = NoFilter)
          /\ filter' = [filter EXCEPT ![p] = ws]
          /\ specific' = [specific EXCEPT ![p] = t]
    /\ alive' = [alive EXCEPT ![p] = TRUE]
    /\ IF isAnotherBartRunning(p, lock, alive)
       THEN /\ Goto(p, "acquire")
            /\ UNCHANGED snap
       ELSE IF \E t \in Tasks : doc[t].status = "in_progress"
       THEN /\ snap' = [snap EXCEPT ![p] = doc]
            /\ Goto(p, "recover_write")
       ELSE /\ UNCHANGED snap
            /\ Goto(p, "acquire")
    /\ UNCHANGED <<graph, telegram, doc, lock, history, next, currentTaskId,
                   currentChild, shuttingDown, signalsSeen, firedMilestones, waited,
                   iterations, exitStatus, notified, startPct>>
    /\ UNCHANGED resetVars
    /\ UNCHANGED matchVars
    /\ UNCHANGED shVars
    /\ UNCHANGED tripVars
    /\ UNCHANGED loadVars
    /\ UNCHANGED statVars
    /\ UNCHANGED pairVars
    /\ stopFile' = (IF checkStopSignal(stopFile) THEN unlinkStop(stopFile) ELSE stopFile)
    /\ stopWrites' = (IF checkStopSignal(stopFile) /\ ~unlinkStop(stopFile) THEN 0
                      ELSE stopWrites)
    /\ UNCHANGED lastNote
    /\ UNCHANGED escVars

\* main: every stale task back to pending, started_at = null; write the
\* file.  recoveryTasks holds the reverted document to the end of its block.
RecoverWrite(p) ==
    /\ pc[p] = "recover_write"
    /\ doc' = RecoverStale(snap[p])
    /\ snap' = [snap EXCEPT ![p] = RecoverStale(snap[p])]
    /\ Goto(p, "acquire")
    /\ UNCHANGED <<graph, telegram, lock, history, alive, filter, specific, next,
                   currentTaskId, currentChild, shuttingDown, signalsSeen,
                   firedMilestones, waited, iterations, exitStatus, notified,
                   startPct>>
    /\ UNCHANGED resetVars
    /\ UNCHANGED matchVars
    /\ UNCHANGED shVars
    /\ UNCHANGED tripVars
    /\ UNCHANGED loadVars
    /\ UNCHANGED statVars
    /\ UNCHANGED pairVars
    /\ UNCHANGED loopVars
    /\ UNCHANGED escVars

\* main: acquireLock(cwd); then runAgent(specificTask), which reads the
\* document, or the run-all loop, whose firedMilestones is seeded from the
\* document as it is now.
Acquire(p) ==
    /\ pc[p] = "acquire"
    /\ lock' = p
    /\ startPct' = [startPct EXCEPT ![p] = RoundPct(CompletedCount(doc), NTasks)]
    /\ IF specific[p] # NoTask
       THEN /\ next' = [next EXCEPT ![p] = specific[p]]
            /\ snap' = [snap EXCEPT ![p] = doc]
            /\ UNCHANGED firedMilestones
            /\ Goto(p, "ra_write")
       ELSE /\ firedMilestones' = [firedMilestones EXCEPT ![p] =
                                     Passed(RoundPct(CompletedCount(doc), NTasks))]
            /\ snap' = [snap EXCEPT ![p] = NoSnap]
            /\ UNCHANGED next
            /\ Goto(p, "loop")
    /\ UNCHANGED <<graph, telegram, doc, history, alive, filter, specific,
                   currentTaskId, currentChild, shuttingDown, signalsSeen, waited,
                   iterations, exitStatus, notified>>
    /\ UNCHANGED resetVars
    /\ UNCHANGED matchVars
    /\ UNCHANGED shVars
    /\ UNCHANGED tripVars
    /\ UNCHANGED loadVars
    /\ UNCHANGED statVars
    /\ UNCHANGED pairVars
    /\ UNCHANGED loopVars
    /\ UNCHANGED escVars

(***************************** cli.ts: the run-all loop *********************)
remaining(d, g, workstream) ==
    {t \in Tasks : /\ d[t].status = "pending"
                   /\ (workstream = NoFilter \/ g.ws[t] = workstream)}

\* A faulty report that never names a workstream.
depsFromOtherWs_none(d, g, workstream) == {}

\* main: the workstreams named in the "waiting on" report.  With no
\* --workstream, `ws !== workstream` compares with undefined and is true.
depsFromOtherWs(d, g, workstream) ==
    {w \in Workstreams \cup {MissingWs} :
        \E t \in remaining(d, g, workstream) : \E depId \in g.deps[t] :
            /\ w = (IF depId \in Tasks THEN g.ws[depId] ELSE MissingWs)
            /\ w # workstream
            /\ ~(depId \in Tasks /\ d[depId].status = "completed")}

\* main: if (iterations > 100) break
overLimit_never(n) == FALSE

overLimit(n) == n > SafetyLimit

\* main: while (waited < 120)
pollAgain_late(w) == w <= WaitCeiling

pollAgain(w) == w < WaitCeiling

\* main, one iteration of while (running): the safety limit, findNextTask
\* on a fresh read, then either runAgent up to its own read of the
\* document, or the report on what the pending tasks wait for.
Select(p) ==
    /\ pc[p] = "loop"
    /\ IF checkStopSignal(stopFile)
       THEN /\ stopFile' = unlinkStop(stopFile)
            /\ stopWrites' = (IF unlinkStop(stopFile) THEN stopWrites ELSE 0)
            /\ lastNote' = [lastNote EXCEPT ![p] = StoppedNote]
            /\ Goto(p, "finish")
            /\ UNCHANGED <<iterations, next, snap, waited>>
       ELSE
       /\ iterations[p] < MaxIter
       /\ iterations' = [iterations EXCEPT ![p] = @ + 1]
       /\ UNCHANGED <<stopFile, stopWrites>>
       /\ IF overLimit(iterations[p] + 1)
          THEN /\ Goto(p, "finish")
               /\ UNCHANGED <<next, snap, waited, lastNote>>
          ELSE IF findNextTask(doc, graph, filter[p]) # NoTask
          THEN /\ next' = [next EXCEPT ![p] = findNextTask(doc, graph, filter[p])]
               /\ snap' = [snap EXCEPT ![p] = doc]
               /\ Goto(p, "ra_write")
               /\ UNCHANGED <<waited, lastNote>>
          ELSE /\ UNCHANGED <<next, snap>>
               /\ IF remaining(doc, graph, filter[p]) = {}
                  THEN Goto(p, "finish") /\ UNCHANGED <<waited, lastNote>>
                  ELSE IF depsFromOtherWs(doc, graph, filter[p]) # {}
                  THEN /\ Goto(p, "finish")
                       /\ lastNote' = [lastNote EXCEPT ![p] =
                                       BlockedNote(depsFromOtherWs(doc, graph, filter[p]))]
                       /\ UNCHANGED waited
                  ELSE /\ Goto(p, "wait")
                       /\ waited' = [waited EXCEPT ![p] = 0]
                       /\ UNCHANGED lastNote
    /\ UNCHANGED <<graph, telegram, doc, lock, history, alive, filter, specific,
                   currentTaskId, currentChild, shuttingDown, signalsSeen, firedMilestones,
                   exitStatus, notified, startPct>>
    /\ UNCHANGED resetVars
    /\ UNCHANGED matchVars
    /\ UNCHANGED shVars
    /\ UNCHANGED tripVars
    /\ UNCHANGED loadVars
    /\ UNCHANGED statVars
    /\ UNCHANGED pairVars
    /\ UNCHANGED escVars

\* main, one turn of while (waited < 120), and the test after the loop
Wait(p) ==
    /\ pc[p] = "wait"
    /\ LET w == waited[p] + PollSeconds IN
       IF checkStopSignal(stopFile)
       THEN /\ stopFile' = unlinkStop(stopFile)
            /\ stopWrites' = (IF unlinkStop(stopFile) THEN stopWrites ELSE 0)
            /\ lastNote' = [lastNote EXCEPT ![p] = StoppedNote]
            /\ waited' = [waited EXCEPT ![p] = 0]
            /\ Goto(p, "finish")
       ELSE
       /\ UNCHANGED loopVars
       /\ IF findNextTask(doc, graph, filter[p]) # NoTask
          THEN /\ waited' = [waited EXCEPT ![p] = 0]
               /\ IF w >= WaitCeiling THEN Goto(p, "finish") ELSE Goto(p, "loop")
          ELSE IF remaining(doc, graph, filter[p]) = {}
          THEN /\ waited' = [waited EXCEPT ![p] = 0]
               /\ Goto(p, "finish")
          ELSE IF pollAgain(w)
          THEN /\ waited' = [waited EXCEPT ![p] = w]
               /\ UNCHANGED pc
          ELSE /\ waited' = [waited EXCEPT ![p] = 0]
               /\ Goto(p, "finish")
    /\ UNCHANGED <<graph, telegram, doc, lock, history, alive, filter, specific, next,
                   snap, currentTaskId, currentChild, shuttingDown, signalsSeen,
                   firedMilestones, iterations, exitStatus, notified, startPct>>
    /\ UNCHANGED resetVars
    /\ UNCHANGED matchVars
    /\ UNCHANGED shVars
    /\ UNCHANGED tripVars
    /\ UNCHANGED loadVars
    /\ UNCHANGED statVars
    /\ UNCHANGED pairVars
    /\ UNCHANGED escVars

(***************************** cli.ts: runAgent *****************************)
\* status = "in_progress", started_at = now; writeFileSync
RaWrite(p) ==
    /\ pc[p] = "ra_write"
    /\ doc' = MarkInProgress(snap[p], next[p])
    /\ snap' = [snap EXCEPT ![p] = NoSnap]
    /\ Goto(p, "spawn")
    /\ UNCHANGED <<graph, telegram, lock, history, alive, filter, specific, next,
                   currentTaskId, currentChild, shuttingDown, signalsSeen, firedMilestones,
                   waited, iterations, exitStatus, notified, startPct>>
    /\ UNCHANGED resetVars
    /\ UNCHANGED matchVars
    /\ UNCHANGED shVars
    /\ UNCHANGED tripVars
    /\ UNCHANGED loadVars
    /\ UNCHANGED statVars
    /\ UNCHANGED pairVars
    /\ UNCHANGED loopVars
    /\ UNCHANGED escVars

\* await sendTelegram(formatTaskStarted(task)); a rejected promise would
\* leave runAgent and end the process.  Then detectAgent, currentTaskId =
\* taskId, currentChild = spawn(...)
Spawn(p) ==
    /\ pc[p] = "spawn"
    /\ IF sendTelegram(telegram) = "thrown"
       THEN Die(p, "1")
       ELSE /\ currentTaskId' = [currentTaskId EXCEPT ![p] = next[p]]
            /\ currentChild' = [currentChild EXCEPT ![p] = "running"]
            /\ Goto(p, "agent")
            /\ UNCHANGED <<alive, filter, specific, next, snap, shuttingDown,
                           signalsSeen, firedMilestones, waited, iterations,
                           exitStatus, notified, startPct>>
    /\ UNCHANGED <<graph, telegram, doc, lock, history>>
    /\ UNCHANGED resetVars
    /\ UNCHANGED matchVars
    /\ UNCHANGED shVars
    /\ UNCHANGED tripVars
    /\ UNCHANGED loadVars
    /\ UNCHANGED statVars
    /\ UNCHANGED pairVars
    /\ UNCHANGED loopVars
    /\ UNCHANGED escVars

\* child "close": the agent's exit code arrives.  Non-zero while shutting
\* down: return false, and the caller ends the run.  Otherwise the document
\* is read again for the outcome.
AgentExit(p) ==
    /\ pc[p] = "agent"
    /\ currentChild' = [currentChild EXCEPT ![p] = "none"]
    /\ \E exitCode \in {0, 1} :
          IF exitCode # 0
          THEN IF shuttingDown[p]
               THEN Goto(p, "finish") /\ UNCHANGED snap
               ELSE Goto(p, "err_write") /\ snap' = [snap EXCEPT ![p] = doc]
          ELSE Goto(p, "fin_write") /\ snap' = [snap EXCEPT ![p] = doc]
    /\ UNCHANGED <<graph, telegram, doc, lock, history, alive, filter, specific, next,
                   currentTaskId, shuttingDown, signalsSeen, firedMilestones, waited,
                   iterations, exitStatus, notified, startPct>>
    /\ UNCHANGED resetVars
    /\ UNCHANGED matchVars
    /\ UNCHANGED shVars
    /\ UNCHANGED tripVars
    /\ UNCHANGED loadVars
    /\ UNCHANGED statVars
    /\ UNCHANGED pairVars
    /\ UNCHANGED loopVars
    /\ UNCHANGED escVars

\* status = "error", error = message; writeFileSync; then
\* resets = countResetsForTask(...); appendHistory({event: "error", ...})
ErrWrite(p) ==
    /\ pc[p] = "err_write"
    /\ Len(history) < MaxHist
    /\ doc' = MarkError(snap[p], next[p])
    /\ history' = appendHistory(history,
                     HistoryEntry("error", next[p], ThisPlan,
                                  countResetsForTask(history, next[p], ThisPlan)))
    /\ snap' = [snap EXCEPT ![p] = NoSnap]
    /\ Goto(p, "err_notify")
    /\ UNCHANGED <<graph, telegram, lock, alive, filter, specific, next,
                   currentTaskId, currentChild, shuttingDown, signalsSeen, firedMilestones,
                   waited, iterations, exitStatus, notified, startPct>>
    /\ sameTaskFailures' = [sameTaskFailures EXCEPT ![p] =
                               countResetsForTask(history, next[p], ThisPlan) + 1]
    /\ UNCHANGED critical
    /\ UNCHANGED resetVars
    /\ UNCHANGED matchVars
    /\ UNCHANGED shVars
    /\ UNCHANGED tripVars
    /\ UNCHANGED loadVars
    /\ UNCHANGED statVars
    /\ pairings' = recordPairing(pairings, next[p], FALSE)
    /\ UNCHANGED <<pairPc, pairCopy, pairEntry>>
    /\ UNCHANGED loopVars

\* the error notifications, then process.exit(exitCode || 1)
ErrNotify(p) ==
    /\ pc[p] = "err_notify"
    /\ critical' = [critical EXCEPT ![p] =
                       IF sendTelegram(telegram) = "thrown" THEN "none"
                       ELSE Escalation(sameTaskFailures[p],
                                       countWorkstreamErrors(history, graph,
                                                             graph.ws[next[p]], ThisPlan))]
    /\ sameTaskFailures' = [sameTaskFailures EXCEPT ![p] = 0]
    /\ Die(p, "1")
    /\ UNCHANGED <<graph, telegram, doc, lock, history>>
    /\ UNCHANGED resetVars
    /\ UNCHANGED matchVars
    /\ UNCHANGED shVars
    /\ UNCHANGED tripVars
    /\ UNCHANGED loadVars
    /\ UNCHANGED statVars
    /\ UNCHANGED pairVars
    /\ lastNote' = [lastNote EXCEPT ![p] = NoNote]
    /\ UNCHANGED <<stopFile, stopWrites>>

\* status = "completed", completed_at = now; writeFileSync; then
\* appendHistory({event: "completed", resets: countResetsForTask(...)}).
\* finalTasksData stays in use for the milestone check.
FinWrite(p) ==
    /\ pc[p] = "fin_write"
    /\ Len(history) < MaxHist
    /\ doc' = MarkCompleted(snap[p], next[p])
    /\ history' = appendHistory(history,
                     HistoryEntry("completed", next[p], ThisPlan,
                                  countResetsForTask(history, next[p], ThisPlan)))
    /\ snap' = [snap EXCEPT ![p] = MarkCompleted(snap[p], next[p])]
    /\ Goto(p, "fin_notify")
    /\ UNCHANGED <<graph, telegram, lock, alive, filter, specific, next,
                   currentTaskId, currentChild, shuttingDown, signalsSeen, firedMilestones,
                   waited, iterations, exitStatus, notified, startPct>>
    /\ UNCHANGED resetVars
    /\ UNCHANGED matchVars
    /\ UNCHANGED shVars
    /\ UNCHANGED tripVars
    /\ UNCHANGED loadVars
    /\ UNCHANGED statVars
    /\ pairings' = recordPairing(pairings, next[p], TRUE)
    /\ UNCHANGED <<pairPc, pairCopy, pairEntry>>
    /\ UNCHANGED loopVars
    /\ UNCHANGED escVars

\* The firedMilestones the milestone test works with: the run's set, or, when
\* runAgent was called without one, thresholds passed by completed - 1.
SeededMilestones(fired, isSingle, milestoneCompleted) ==
    IF isSingle
    THEN Passed(RoundPct(IF milestoneCompleted >= 1 THEN milestoneCompleted - 1
                         ELSE 0, NTasks))
    ELSE fired

\* thresholds notified by this completion
NewMilestones(fired, isSingle, milestoneCompleted) ==
    {th \in MILESTONE_THRESHOLDS :
        /\ RoundPct(milestoneCompleted, NTasks) >= th
        /\ th \notin SeededMilestones(fired, isSingle, milestoneCompleted)}

\* the completion notification, the milestone check, currentTaskId = null,
\* and the answer to "Continue with next task?" (true when auto-continue)
FinNotify(p) ==
    /\ pc[p] = "fin_notify"
    /\ IF sendTelegram(telegram) = "thrown"
       THEN Die(p, "1")
       ELSE
       /\ LET fresh == NewMilestones(firedMilestones[p], specific[p] # NoTask,
                                     CompletedCount(snap[p]))
          IN /\ notified' = [notified EXCEPT ![p] =
                               [th \in MILESTONE_THRESHOLDS |->
                                  IF th \in fresh THEN @[th] + 1 ELSE @[th]]]
             /\ firedMilestones' = [firedMilestones EXCEPT ![p] =
                   IF specific[p] # NoTask THEN @ ELSE @ \cup fresh]
       /\ currentTaskId' = [currentTaskId EXCEPT ![p] = NoTask]
       /\ snap' = [snap EXCEPT ![p] = NoSnap]
       /\ next' = [next EXCEPT ![p] = NoTask]
       /\ \E shouldContinue \in BOOLEAN :
             IF specific[p] # NoTask \/ ~shouldContinue
             THEN Goto(p, "finish")
             ELSE Goto(p, "loop")
       /\ UNCHANGED <<alive, filter, specific, currentChild, shuttingDown,
                      signalsSeen, waited, iterations, exitStatus, startPct>>
    /\ UNCHANGED <<graph, telegram, doc, lock, history>>
    /\ UNCHANGED resetVars
    /\ UNCHANGED matchVars
    /\ UNCHANGED shVars
    /\ UNCHANGED tripVars
    /\ UNCHANGED loadVars
    /\ UNCHANGED statVars
    /\ UNCHANGED pairVars
    /\ UNCHANGED loopVars
    /\ UNCHANGED escVars

\* end of the run, releaseLock(cwd) up to its test: the lock file is read
\* and, when it does not hold the pid of this process, main returns.
Finish(p) ==
    /\ pc[p] = "finish"
    /\ IF ownsLock(p, lock)
       THEN /\ Goto(p, "unlink")
            /\ UNCHANGED <<alive, filter, specific, next, snap, currentTaskId,
                           currentChild, shuttingDown, signalsSeen, firedMilestones, waited,
                           iterations, exitStatus, notified, startPct>>
       ELSE Die(p, "0")
    /\ lastNote' = [lastNote EXCEPT ![p] = NoNote]
    /\ UNCHANGED <<graph, telegram, doc, lock, history, stopFile, stopWrites>>
    /\ UNCHANGED resetVars
    /\ UNCHANGED matchVars
    /\ UNCHANGED shVars
    /\ UNCHANGED tripVars
    /\ UNCHANGED loadVars
    /\ UNCHANGED statVars
    /\ UNCHANGED pairVars
    /\ UNCHANGED escVars

\* releaseLock after its test: unlinkSync(lockPath) removes the file as it
\* is now (a missing file throws into the empty catch); main returns.
Unlink(p) ==
    /\ pc[p] = "unlink"
    /\ lock' = NoLock
    /\ Die(p, "0")
    /\ UNCHANGED <<graph, telegram, doc, history>>
    /\ UNCHANGED resetVars
    /\ UNCHANGED matchVars
    /\ UNCHANGED shVars
    /\ UNCHANGED tripVars
    /\ UNCHANGED loadVars
    /\ UNCHANGED statVars
    /\ UNCHANGED pairVars
    /\ UNCHANGED loopVars
    /\ UNCHANGED escVars

(***************************** cli.ts: signals ******************************)
\* Places where the process awaits, so that a pending SIGINT / SIGTERM is
\* handled: the notifications and agent detection before the spawn, the
\* wait for the agent, the notifications after an outcome, the poll timer.
SignalPoints == {"spawn", "agent", "err_notify", "fin_notify", "wait"}

alreadyShuttingDown_ignored(flag) == FALSE

\* if (shuttingDown) return
alreadyShuttingDown(flag) == flag

\* installSignalHandlers, handler.  A signal that finds shuttingDown set
\* returns at once.  Otherwise the child is sent SIGTERM, the tracked task
\* is reset, the lock released; the exit follows from a 3.5 s timer
\* (Exit130).
Signal(p) ==
    /\ alive[p]
    /\ pc[p] \in SignalPoints
    /\ signalsSeen[p] < MaxSignals
    /\ signalsSeen' = [signalsSeen EXCEPT ![p] = @ + 1]
    /\ IF alreadyShuttingDown(shuttingDown[p])
       THEN UNCHANGED <<shuttingDown, currentChild, doc, lock>>
       ELSE /\ shuttingDown' = [shuttingDown EXCEPT ![p] = TRUE]
            /\ currentChild' = [currentChild EXCEPT ![p] =
                                   IF @ = "running" THEN "killed" ELSE @]
            /\ doc' = resetInProgressTask(doc, currentTaskId[p])
            /\ lock' = releaseLock(p, lock)
    /\ UNCHANGED <<graph, telegram, history, alive, pc, filter, specific, next, snap,
                   currentTaskId, firedMilestones, waited, iterations,
                   exitStatus, notified, startPct>>
    /\ UNCHANGED resetVars
    /\ UNCHANGED matchVars
    /\ UNCHANGED shVars
    /\ UNCHANGED tripVars
    /\ UNCHANGED loadVars
    /\ UNCHANGED statVars
    /\ UNCHANGED pairVars
    /\ UNCHANGED loopVars
    /\ UNCHANGED escVars

\* setTimeout(() => process.exit(130), 3500)
Exit130(p) ==
    /\ alive[p]
    /\ shuttingDown[p]
    /\ Die(p, "130")
    /\ UNCHANGED <<graph, telegram, doc, lock, history>>
    /\ UNCHANGED resetVars
    /\ UNCHANGED matchVars
    /\ UNCHANGED shVars
    /\ UNCHANGED tripVars
    /\ UNCHANGED loadVars
    /\ UNCHANGED statVars
    /\ UNCHANGED pairVars
    /\ lastNote' = [lastNote EXCEPT ![p] = NoNote]
    /\ UNCHANGED <<stopFile, stopWrites>>
    /\ sameTaskFailures' = [sameTaskFailures EXCEPT ![p] = 0]
    /\ UNCHANGED critical

\* The process is killed outright (SIGKILL, power loss): no handler runs.
Crash(p) ==
    /\ alive[p]
    /\ Die(p, "killed")
    /\ UNCHANGED <<graph, telegram, doc, lock, history>>
    /\ UNCHANGED resetVars
    /\ UNCHANGED matchVars
    /\ UNCHANGED shVars
    /\ UNCHANGED tripVars
    /\ UNCHANGED loadVars
    /\ UNCHANGED statVars
    /\ UNCHANGED pairVars
    /\ lastNote' = [lastNote EXCEPT ![p] = NoNote]
    /\ UNCHANGED <<stopFile, stopWrites>>
    /\ sameTaskFailures' = [sameTaskFailures EXCEPT ![p] = 0]
    /\ UNCHANGED critical

\* The operator types `bart run` again: a new process, written in the place
\* of one that has ended.  A new process has a new pid, so the place is
\* taken only when the lock file does not hold the pid of the old one.
Respawn(p) ==
    /\ pc[p] = "dead"
    /\ lock # p
    /\ pc' = [pc EXCEPT ![p] = "idle"]
    /\ exitStatus' = [exitStatus EXCEPT ![p] = "none"]
    /\ UNCHANGED <<graph, telegram, doc, lock, history, alive, filter, specific, next,
                   snap, currentTaskId, currentChild, shuttingDown, signalsSeen,
                   firedMilestones, waited, iterations, notified, startPct>>
    /\ UNCHANGED resetVars
    /\ UNCHANGED matchVars
    /\ UNCHANGED shVars
    /\ UNCHANGED tripVars
    /\ UNCHANGED loadVars
    /\ UNCHANGED statVars
    /\ UNCHANGED pairVars
    /\ UNCHANGED loopVars
    /\ UNCHANGED escVars

(***************************** cli.ts: `bart stop` **************************)
\* main, case "stop": writeFileSync(stopPath, ...)
StopRequest ==
    /\ stopWrites < MaxStops
    /\ stopFile' = TRUE
    /\ stopWrites' = stopWrites + 1
    /\ UNCHANGED <<graph, telegram, doc, lock, history, lastNote>>
    /\ UNCHANGED ctlVars
    /\ UNCHANGED resetVars
    /\ UNCHANGED matchVars
    /\ UNCHANGED shVars
    /\ UNCHANGED tripVars
    /\ UNCHANGED loadVars
    /\ UNCHANGED statVars
    /\ UNCHANGED pairVars
    /\ UNCHANGED escVars

(***************************** cli.ts: `bart reset` *************************)
\* resetTasks = readTasks(); previousResets = countResetsForTask(...)
ResetRead(u) ==
    /\ rpc[u] = "idle"
    /\ resetsDone + Cardinality({v \in Shells : rpc[v] # "idle"}) < MaxResets
    /\ \E t \in Tasks :
          /\ rtask' = [rtask EXCEPT ![u] = t]
          /\ rprev' = [rprev EXCEPT ![u] = countResetsForTask(history, t, ThisPlan)]
    /\ rsnap' = [rsnap EXCEPT ![u] = doc]
    /\ rpc' = [rpc EXCEPT ![u] = "write"]
    /\ UNCHANGED <<graph, telegram, doc, lock, history, resetsDone>>
    /\ UNCHANGED ctlVars
    /\ UNCHANGED matchVars
    /\ UNCHANGED shVars
    /\ UNCHANGED tripVars
    /\ UNCHANGED loadVars
    /\ UNCHANGED statVars
    /\ UNCHANGED pairVars
    /\ UNCHANGED loopVars
    /\ UNCHANGED escVars

\* status = "pending", started_at = completed_at = error = null; writeFileSync
ResetWrite(u) ==
    /\ rpc[u] = "write"
    /\ doc' = ResetTask(rsnap[u], rtask[u])
    /\ rpc' = [rpc EXCEPT ![u] = "append"]
    /\ UNCHANGED <<graph, telegram, lock, history, rtask, rsnap, rprev, resetsDone>>
    /\ UNCHANGED ctlVars
    /\ UNCHANGED matchVars
    /\ UNCHANGED shVars
    /\ UNCHANGED tripVars
    /\ UNCHANGED loadVars
    /\ UNCHANGED statVars
    /\ UNCHANGED pairVars
    /\ UNCHANGED loopVars
    /\ UNCHANGED escVars

\* appendHistory({event: "reset", resets: previousResets + 1})
ResetAppend(u) ==
    /\ rpc[u] = "append"
    /\ history' = appendHistory(history, HistoryEntry("reset", rtask[u], ThisPlan, rprev[u] + 1))
    /\ rpc' = [rpc EXCEPT ![u] = "idle"]
    /\ rtask' = [rtask EXCEPT ![u] = NoTask]
    /\ rsnap' = [rsnap EXCEPT ![u] = NoSnap]
    /\ rprev' = [rprev EXCEPT ![u] = 0]
    /\ resetsDone' = resetsDone + 1
    /\ UNCHANGED <<graph, telegram, doc, lock>>
    /\ UNCHANGED ctlVars
    /\ UNCHANGED matchVars
    /\ UNCHANGED shVars
    /\ UNCHANGED tripVars
    /\ UNCHANGED loadVars
    /\ UNCHANGED statVars
    /\ UNCHANGED pairVars
    /\ UNCHANGED loopVars
    /\ UNCHANGED escVars

(***************************** specification ********************************)
Next ==
    \/ \E p \in Procs : Start(p)
    \/ \E p \in Procs : RecoverWrite(p)
    \/ \E p \in Procs : Acquire(p)
    \/ \E p \in Procs : Select(p)
    \/ \E p \in Procs : Wait(p)
    \/ \E p \in Procs : RaWrite(p)
    \/ \E p \in Procs : Spawn(p)
    \/ \E p \in Procs : AgentExit(p)
    \/ \E p \in Procs : ErrWrite(p)
    \/ \E p \in Procs : ErrNotify(p)
    \/ \E p \in Procs : FinWrite(p)
    \/ \E p \in Procs : FinNotify(p)
    \/ \E p \in Procs : Finish(p)
    \/ \E p \in Procs : Unlink(p)
    \/ \E p \in Procs : Signal(p)
    \/ \E p \in Procs : Exit130(p)
    \/ \E p \in Procs : Crash(p)
    \/ \E u \in Shells : ResetRead(u)
    \/ \E u \in Shells : ResetWrite(u)
    \/ \E u \in Shells : ResetAppend(u)
    \/ StopRequest

Spec == Init /\ [][Next]_vars

TypeOK ==
    /\ \A t \in Tasks : doc[t].status \in Statuses
    /\ lock \in Procs \cup {NoLock}
    /\ stopFile \in BOOLEAN
    /\ \A p \in Procs : lastNote[p].kind \in {"none", "stopped", "blocked"}


(* One `bart run` process, with an operator who resets tasks and sends    *)
(* signals.                                                                *)
NextSolo ==
    \/ Start(1)
    \/ Acquire(1)
    \/ Select(1)
    \/ RaWrite(1)
    \/ Spawn(1)
    \/ AgentExit(1)
    \/ ErrWrite(1)
    \/ ErrNotify(1)
    \/ FinWrite(1)
    \/ FinNotify(1)
    \/ Finish(1)
    \/ Unlink(1)
    \/ Signal(1)
    \/ Exit130(1)
    \/ Crash(1)
    \/ ResetRead("s1")
    \/ ResetWrite("s1")
    \/ ResetAppend("s1")

SpecSolo == Init /\ [][NextSolo]_vars

(* `bart reset` commands issued from several shells, no run in progress.  *)
NextReset ==
    \/ \E u \in Shells : ResetRead(u)
    \/ \E u \in Shells : ResetWrite(u)
    \/ \E u \in Shells : ResetAppend(u)

SpecReset == Init /\ [][NextReset]_vars

(* Several `bart run` processes on the same files, any of which may be    *)
(* killed.                                                                 *)
NextDuo ==
    \/ \E p \in Procs : Start(p)
    \/ \E p \in Procs : RecoverWrite(p)
    \/ \E p \in Procs : Acquire(p)
    \/ \E p \in Procs : Select(p)
    \/ \E p \in Procs : RaWrite(p)
    \/ \E p \in Procs : Spawn(p)
    \/ \E p \in Procs : AgentExit(p)
    \/ \E p \in Procs : ErrWrite(p)
    \/ \E p \in Procs : ErrNotify(p)
    \/ \E p \in Procs : FinWrite(p)
    \/ \E p \in Procs : FinNotify(p)
    \/ \E p \in Procs : Finish(p)
    \/ \E p \in Procs : Unlink(p)
    \/ \E p \in Procs : Crash(p)

InitDuo == Init /\ history = << >>

SpecDuo == InitDuo /\ [][NextDuo]_vars


(***************************** one command at a time ************************)
(* `bart run <task-id>` and `bart reset <task-id>` issued one after the    *)
(* other, each command running to its end before the next is typed.        *)
InitSeq ==
    /\ graph \in {FlatGraph, ParGraph}
    /\ doc = FreshDoc
    /\ lock = NoLock
    /\ history \in {<< >>, <<HistoryEntry("reset", 1, OtherPlan, 1)>>}
    /\ InitProcs
    /\ InitReset
    /\ InitEsc
    /\ InitLoop
    /\ InitMatch
    /\ InitPair
    /\ InitNet
    /\ InitSh
    /\ InitTrip
    /\ InitLoad
    /\ InitStat

\* main, case "run" with a task id, and runAgent, from the first line to the
\* exit: stale recovery, lock, in_progress, the agent's exit code, the
\* outcome in tasks.json and in the ledger, the notifications, and
\* releaseLock (exit code 0) or process.exit (non-zero).
RunToEnd(p) ==
    /\ \A q \in Procs : pc[q] = "idle"
    /\ Len(history) < MaxLedger
    /\ \E t \in Tasks, exitCode \in {0, 1} :
          LET started == MarkInProgress(RecoverStale(doc), t)
              resets == countResetsForTask(history, t, ThisPlan)
              ledger == appendHistory(history,
                               HistoryEntry(IF exitCode = 0 THEN "completed" ELSE "error",
                                            t, ThisPlan, resets))
          IN /\ doc' = IF exitCode = 0 THEN MarkCompleted(started, t)
                                       ELSE MarkError(started, t)
             /\ history' = ledger
             /\ pairings' = recordPairing(pairings, t, exitCode = 0)
             /\ lock' = IF exitCode = 0 THEN releaseLock(p, p) ELSE p
             /\ critical' = [critical EXCEPT ![p] =
                   IF exitCode = 0 THEN "none"
                   ELSE Escalation(resets + 1,
                                   countWorkstreamErrors(ledger, graph, graph.ws[t],
                                                         ThisPlan))]
    /\ UNCHANGED <<graph, telegram, sameTaskFailures>>
    /\ UNCHANGED ctlVars
    /\ UNCHANGED resetVars
    /\ UNCHANGED matchVars
    /\ UNCHANGED shVars
    /\ UNCHANGED tripVars
    /\ UNCHANGED loadVars
    /\ UNCHANGED statVars
    /\ UNCHANGED <<pairPc, pairCopy, pairEntry>>
    /\ UNCHANGED loopVars

\* main, case "reset", from the first line to the last
ResetToEnd(u) ==
    /\ \A q \in Procs : pc[q] = "idle"
    /\ \A v \in Shells : rpc[v] = "idle"
    /\ Len(history) < MaxLedger
    /\ \E t \in Tasks :
          /\ doc' = ResetTask(doc, t)
          /\ history' = appendHistory(history,
                               HistoryEntry("reset", t, ThisPlan,
                                            countResetsForTask(history, t, ThisPlan) + 1))
    /\ UNCHANGED <<graph, telegram, lock, rpc, rtask, rsnap, rprev, resetsDone>>
    /\ UNCHANGED ctlVars
    /\ UNCHANGED matchVars
    /\ UNCHANGED shVars
    /\ UNCHANGED tripVars
    /\ UNCHANGED loadVars
    /\ UNCHANGED statVars
    /\ UNCHANGED pairVars
    /\ UNCHANGED loopVars
    /\ UNCHANGED escVars

NextSeq ==
    \/ \E p \in Procs : RunToEnd(p)
    \/ \E u \in Shells : ResetToEnd(u)

SpecSeq == InitSeq /\ [][NextSeq]_vars

(***************************** matchSpecialist alone ************************)
\* numbers of words of a task's title and description that are tried
WordTotals == {0, 2, 5, 10, MaxWords}

\* The entries of the model for one specialist: none, too few, enough with
\* a confidence just below, at and above the threshold.
ModelRows ==
    {[n |-> 0, k |-> 0, w |-> 0],
     [n |-> MIN_SAMPLES_FOR_TRUST - 1, k |-> MIN_SAMPLES_FOR_TRUST - 1, w |-> 1000],
     [n |-> MIN_SAMPLES_FOR_TRUST, k |-> 4, w |-> 799],
     [n |-> MIN_SAMPLES_FOR_TRUST, k |-> 4, w |-> 800],
     [n |-> MIN_SAMPLES_FOR_TRUST, k |-> 5, w |-> 1000]}

TitleTags == {<< >>, <<"alpha">>, <<"ALPHA">>, <<"beta">>, <<"wip", "alpha">>}

MatchCall(list, tags, others, rowA, rowB, kw, kA, kB, words, wA, wB) ==
    [called |-> TRUE, specialists |-> list, tags |-> tags, others |-> others,
     samples |-> [n \in SpecialistNames |-> IF n = "alpha" THEN rowA.n ELSE rowB.n],
     successes |-> [n \in SpecialistNames |-> IF n = "alpha" THEN rowA.k ELSE rowB.k],
     wRate |-> [n \in SpecialistNames |-> IF n = "alpha" THEN rowA.w ELSE rowB.w],
     kw |-> kw, kwScore |-> [n \in SpecialistNames |-> IF n = "alpha" THEN kA ELSE kB],
     words |-> words,
     wordScore |-> [n \in SpecialistNames |-> IF n = "alpha" THEN wA ELSE wB]]

InitMatchCall ==
    /\ graph = ParGraph
    /\ doc = FreshDoc
    /\ lock = NoLock
    /\ history = << >>
    /\ InitProcs
    /\ InitReset
    /\ InitEsc
    /\ InitLoop
    /\ InitPair
    /\ InitNet
    /\ InitSh
    /\ InitTrip
    /\ InitLoad
    /\ InitStat
    /\ mResult = NoMatchCall
    /\ \E list \in {<< >>, <<"alpha">>, <<"alpha", "beta">>},
          tags \in TitleTags,
          others \in {0, MIN_SAMPLES_FOR_TRUST},
          rowA \in ModelRows,
          rowB \in {r \in ModelRows : r.w # 799},
          kw \in {0, 2, MaxKw}, words \in WordTotals :
          \E kA \in 0..kw, kB \in {0, kw}, wA \in {0, 1, words - 9, words - 1, words} \cap 0..words,
             wB \in {0, words} :
             mTask = MatchCall(list, tags, others, rowA, rowB, kw, kA, kB, words, wA, wB)

\* matchSpecialist(task, specialists, model)
MatchStep ==
    /\ mTask.called
    /\ ~mResult.called
    /\ mResult' = matchSpecialist(mTask)
    /\ UNCHANGED <<graph, telegram, doc, lock, history, mTask>>
    /\ UNCHANGED pairVars
    /\ UNCHANGED statVars
    /\ UNCHANGED ctlVars
    /\ UNCHANGED resetVars
    /\ UNCHANGED shVars
    /\ UNCHANGED tripVars
    /\ UNCHANGED loadVars
    /\ UNCHANGED escVars
    /\ UNCHANGED loopVars

NextMatch == MatchStep

SpecMatch == InitMatchCall /\ [][NextMatch]_vars

(***************************** findNextTask alone ***************************)
\* A task as each status leaves it.
TaskIn(st) ==
    [status |-> st,
     started_at |-> st # "pending",
     completed_at |-> st = "completed",
     error |-> st = "error"]

\* depends_on lists tried for task t: none, the task before, an id that
\* names no task, the tasks before and after.
DepChoices(t) ==
    {{}, {((t + NTasks - 2) % NTasks) + 1}, {MissingId},
     {((t + NTasks - 2) % NTasks) + 1, (t % NTasks) + 1}}

FindGraphs ==
    {[ws |-> w, deps |-> dp] :
        w \in {AltWs, OneWs},
        dp \in {f \in [Tasks -> SUBSET (Tasks \cup {MissingId})] :
                   \A t \in Tasks : f[t] \in DepChoices(t)}}

InitFind ==
    /\ graph \in FindGraphs
    /\ doc \in {[t \in Tasks |-> TaskIn(f[t])] : f \in [Tasks -> Statuses]}
    /\ lock = NoLock
    /\ history = << >>
    /\ InitProcs
    /\ InitReset
    /\ InitEsc
    /\ InitLoop
    /\ InitMatch
    /\ InitPair
    /\ InitNet
    /\ InitSh
    /\ InitTrip
    /\ InitLoad
    /\ InitStat

\* findNextTask(tasks, workstream) called on the document
FindStep ==
    /\ pc[1] = "idle"
    /\ \E ws \in Workstreams \cup {NoFilter} :
          /\ filter' = [filter EXCEPT ![1] = ws]
          /\ next' = [next EXCEPT ![1] = findNextTask(doc, graph, ws)]
    /\ Goto(1, "found")
    /\ UNCHANGED <<graph, telegram, doc, lock, history, alive, specific, snap,
                   currentTaskId, currentChild, shuttingDown, signalsSeen, firedMilestones,
                   waited, iterations, exitStatus, notified, startPct>>
    /\ UNCHANGED resetVars
    /\ UNCHANGED matchVars
    /\ UNCHANGED shVars
    /\ UNCHANGED tripVars
    /\ UNCHANGED loadVars
    /\ UNCHANGED statVars
    /\ UNCHANGED pairVars
    /\ UNCHANGED loopVars
    /\ UNCHANGED escVars

NextFind == FindStep

SpecFind == InitFind /\ [][NextFind]_vars


(***************************** a run-all loop beside `bart run <id>` ********)
\* Process 1 runs `bart run [--workstream W]`, process 2 `bart run <id>`, and
\* a shell may write the stop file.  No process is killed, so no start finds
\* a stale task to recover.
InitLoopRun ==
    /\ graph \in {StrideGraph, ChainGraph}
    /\ doc = FreshDoc
    /\ lock = NoLock
    /\ history = << >>
    /\ InitProcs
    /\ InitReset
    /\ InitEsc
    /\ InitLoop
    /\ InitMatch
    /\ InitPair
    /\ InitNet
    /\ InitSh
    /\ InitTrip
    /\ InitLoad
    /\ InitStat

StartAll(p) == Start(p) /\ specific'[p] = NoTask

StartOne(p) == Start(p) /\ specific'[p] # NoTask

NextLoop ==
    \/ StartAll(1)
    \/ StartOne(2)
    \/ \E p \in Procs : Acquire(p)
    \/ Select(1)
    \/ Wait(1)
    \/ \E p \in Procs : RaWrite(p)
    \/ \E p \in Procs : Spawn(p)
    \/ \E p \in Procs : AgentExit(p)
    \/ \E p \in Procs : ErrWrite(p)
    \/ \E p \in Procs : ErrNotify(p)
    \/ \E p \in Procs : FinWrite(p)
    \/ \E p \in Procs : FinNotify(p)
    \/ \E p \in Procs : Finish(p)
    \/ \E p \in Procs : Unlink(p)
    \/ StopRequest

SpecLoop == InitLoopRun /\ [][NextLoop]_vars

(***************************** cancelling a run *****************************)
\* One `bart run` with auto-continue; an operator types `bart stop` and
\* sends termination signals, each of them any number of times up to
\* MaxStops and MaxSignals.  With no other process at work the run never
\* waits for a dependency, so Wait is not among the steps.
NextCancel ==
    \/ StartAll(1)
    \/ Acquire(1)
    \/ Select(1)
    \/ RaWrite(1)
    \/ Spawn(1)
    \/ AgentExit(1)
    \/ ErrWrite(1)
    \/ ErrNotify(1)
    \/ FinWrite(1)
    \/ FinNotify(1)
    \/ Finish(1)
    \/ Unlink(1)
    \/ Signal(1)
    \/ Exit130(1)
    \/ StopRequest

SpecCancel == InitLoopRun /\ [][NextCancel]_vars

(***************************** notifications that fail **********************)
\* One `bart run` with auto-continue, whatever the Telegram settings and
\* the state of the service.
InitNotify ==
    /\ graph \in {StrideGraph, ChainGraph}
    /\ doc = FreshDoc
    /\ lock = NoLock
    /\ history = << >>
    /\ InitProcs
    /\ InitReset
    /\ InitEsc
    /\ InitLoop
    /\ InitMatch
    /\ InitPair
    /\ InitStat
    /\ InitLoad
    /\ InitTrip
    /\ InitSh
    /\ telegram \in Nets

NextNotify ==
    \/ StartAll(1)
    \/ Acquire(1)
    \/ Select(1)
    \/ RaWrite(1)
    \/ Spawn(1)
    \/ AgentExit(1)
    \/ ErrWrite(1)
    \/ ErrNotify(1)
    \/ FinWrite(1)
    \/ FinNotify(1)
    \/ Finish(1)
    \/ Unlink(1)

SpecNotify == InitNotify /\ [][NextNotify]_vars

(***************************** loadHistory alone ****************************)
\* A history file of at most MaxLines lines is loaded.
MaxIds == 2

FileLines ==
    {JsonLine(i) : i \in 1..MaxIds}
        \cup {OtherLine(k) : k \in {"scalar", "blank", "garbage", "cut"}}

InitLoadCall ==
    /\ graph = ParGraph
    /\ doc = FreshDoc
    /\ lock = NoLock
    /\ history = << >>
    /\ InitProcs
    /\ InitReset
    /\ InitEsc
    /\ InitLoop
    /\ InitMatch
    /\ InitPair
    /\ InitStat
    /\ InitNet
    /\ InitSh
    /\ InitTrip
    /\ \E k \in 0..MaxLines : histLines \in [1..k -> FileLines]
    /\ loaded = NotLoaded

\* loadHistory(cwd) on the file
LoadStep ==
    /\ ~loaded.called
    /\ loaded' = [called |-> TRUE,
                  failed |-> loadHistory(histLines).failed,
                  entries |-> loadHistory(histLines).entries]
    /\ UNCHANGED <<graph, telegram, doc, lock, history, histLines>>
    /\ UNCHANGED ctlVars
    /\ UNCHANGED tripVars
    /\ UNCHANGED <<rpc, rtask, rsnap, rprev, resetsDone>>
    /\ UNCHANGED <<mTask, mResult>>
    /\ UNCHANGED statVars
    /\ UNCHANGED pairVars
    /\ UNCHANGED loopVars
    /\ UNCHANGED shVars
    /\ UNCHANGED escVars

NextLoad == LoadStep

SpecLoad == InitLoadCall /\ [][NextLoad]_vars

(***************************** a document written and read ******************)
\* A document of at most MaxDocTasks tasks is written and read back.
ValidTask ==
    [id : {Str("A1"), Str("B2")},
     status : {Str(x) : x \in Statuses},
     started_at : {Null, Str("2026-01-01T00:00:00.000Z")},
     requirements : {Absent, Undefined, List(<< >>), List(<<"REQ-01", "REQ-02">>)},
     specialist : {Absent, Undefined, Str("alpha")}]

InitTripCall ==
    /\ graph = ParGraph
    /\ doc = FreshDoc
    /\ lock = NoLock
    /\ history = << >>
    /\ InitProcs
    /\ InitReset
    /\ InitEsc
    /\ InitLoop
    /\ InitMatch
    /\ InitPair
    /\ InitStat
    /\ InitNet
    /\ InitSh
    /\ InitLoad
    /\ \E k \in 0..MaxDocTasks :
          /\ memDoc \in [1..k -> ValidTask]
          /\ \A i, j \in 1..k : memDoc[i].id = memDoc[j].id => i = j
    /\ reloaded = NotRead

\* writeFileSync(path, JSON.stringify(data, null, 2)); readTasks(path)
TripStep ==
    /\ ~reloaded.called
    /\ reloaded' = [called |-> TRUE, tasks |-> parse(stringify(memDoc))]
    /\ UNCHANGED <<graph, telegram, doc, lock, history, memDoc>>
    /\ UNCHANGED ctlVars
    /\ UNCHANGED <<rpc, rtask, rsnap, rprev, resetsDone>>
    /\ UNCHANGED <<mTask, mResult>>
    /\ UNCHANGED statVars
    /\ UNCHANGED loadVars
    /\ UNCHANGED pairVars
    /\ UNCHANGED loopVars
    /\ UNCHANGED shVars
    /\ UNCHANGED escVars

NextTrip == TripStep

SpecTrip == InitTripCall /\ [][NextTrip]_vars

(***************************** one run after the other ***********************)
\* A `bart run <task-id>`, and beside it `bart run <task-id>` typed again
\* each time the previous one has ended.
InitRerun ==
    /\ graph = FlatGraph
    /\ doc = FreshDoc
    /\ lock = NoLock
    /\ history = << >>
    /\ InitProcs
    /\ InitReset
    /\ InitEsc
    /\ InitLoop
    /\ InitMatch
    /\ InitPair
    /\ InitNet
    /\ InitSh
    /\ InitTrip
    /\ InitLoad
    /\ InitStat

NextRerun ==
    \/ StartOne(1)
    \/ StartOne(2)
    \/ \E p \in Procs : RecoverWrite(p)
    \/ \E p \in Procs : Acquire(p)
    \/ \E p \in Procs : RaWrite(p)
    \/ \E p \in Procs : Spawn(p)
    \/ \E p \in Procs : AgentExit(p)
    \/ \E p \in Procs : ErrWrite(p)
    \/ \E p \in Procs : ErrNotify(p)
    \/ \E p \in Procs : FinWrite(p)
    \/ \E p \in Procs : FinNotify(p)
    \/ \E p \in Procs : Finish(p)
    \/ \E p \in Procs : Unlink(p)
    \/ Respawn(2)

SpecRerun == InitRerun /\ [][NextRerun]_vars

(***************************** bart.sh ***************************************)
\* MAX_CONSECUTIVE_FAILURES=3
MAX_CONSECUTIVE_FAILURES == 3
\* run_task: return 175, "special exit code for rate limit"
RateLimited == 175

\* deps_met: every id of depends_on has status "completed"; an id that
\* names no task has the empty status
deps_met(d, g, task_id) ==
    \A dep \in g.deps[task_id] : dep \in Tasks /\ d[dep].status = "completed"

\* is_locked: <id>.lock exists and its pid is alive (the script's own)
is_locked(locks, task_id) == task_id \in locks

\* find_next_task: the first pending task, of the workstream if one is
\* given, with its dependencies met and not locked
find_next_task(d, g, locks, workstream_filter) ==
    LET found == {t \in Tasks :
                    /\ d[t].status = "pending"
                    /\ (workstream_filter = NoFilter \/ g.ws[t] = workstream_filter)
                    /\ deps_met(d, g, t)
                    /\ ~is_locked(locks, t)}
    IN IF found = {} THEN NoTask ELSE Min(found)

\* main loop: the number of tasks (of the workstream) not completed
sh_remaining(d, g, workstream_filter) ==
    Cardinality({t \in Tasks :
                    /\ (workstream_filter = NoFilter \/ g.ws[t] = workstream_filter)
                    /\ d[t].status # "completed"})

\* What the agent's run came to, as run_task sees it.
AgentOutcomes == {"done", "failed", "rate_limited"}

\* run_task: the value it returns
run_task_status(outcome) ==
    IF outcome = "rate_limited" THEN RateLimited
    ELSE IF outcome = "done" THEN 0
    ELSE 1

\* run_task: tasks.json when it returns.  in_progress and started_at first;
\* a rate limit writes the error text and returns at once; exit code 0
\* gives completed and completed_at, any other code error and its text.
run_task_doc(d, task_id, outcome) ==
    LET started == [d EXCEPT ![task_id].status = "in_progress",
                             ![task_id].started_at = TRUE]
    IN IF outcome = "rate_limited" THEN [started EXCEPT ![task_id].error = TRUE]
       ELSE IF outcome = "done"
       THEN [started EXCEPT ![task_id].status = "completed",
                            ![task_id].completed_at = TRUE]
       ELSE [started EXCEPT ![task_id].status = "error", ![task_id].error = TRUE]

\* run_task: lock_task at the start, unlock_task before `return $exit_code`;
\* the rate-limit return comes before the unlock
run_task_locks(locks, task_id, outcome) ==
    IF outcome = "rate_limited" THEN locks \cup {task_id} ELSE locks \ {task_id}

\* `run_task ... || task_exit=$?`: the assignment is made only when the
\* command fails; after a success the variable keeps its value
orAssign(kept, status) == IF status # 0 THEN status ELSE kept

\* the options are read; CONSECUTIVE_FAILURES=0
ShStart ==
    /\ shPc = "idle"
    /\ WORKSTREAM' \in Workstreams \cup {NoFilter}
    /\ CONSECUTIVE_FAILURES' = 0
    /\ shPc' = "loop"
    /\ UNCHANGED <<local_next, task_exit, taskLocks, shExit>>
    /\ UNCHANGED <<graph, telegram, doc, lock, history>>
    /\ UNCHANGED ctlVars
    /\ UNCHANGED resetVars
    /\ UNCHANGED matchVars
    /\ UNCHANGED tripVars
    /\ UNCHANGED loadVars
    /\ UNCHANGED statVars
    /\ UNCHANGED pairVars
    /\ UNCHANGED loopVars
    /\ UNCHANGED escVars

\* main loop, from find_next_task to the call of run_task: with no task and
\* nothing left the script exits 0; with no task and something left it
\* sleeps 30 seconds and looks again, which changes nothing
ShFind ==
    /\ shPc = "loop"
    /\ LET t == find_next_task(doc, graph, taskLocks, WORKSTREAM) IN
       IF t # NoTask
       THEN /\ local_next' = t
            /\ shPc' = "run"
            /\ UNCHANGED shExit
       ELSE /\ sh_remaining(doc, graph, WORKSTREAM) = 0
            /\ shPc' = "exited"
            /\ shExit' = "0"
            /\ UNCHANGED local_next
    /\ UNCHANGED <<WORKSTREAM, task_exit, CONSECUTIVE_FAILURES, taskLocks>>
    /\ UNCHANGED <<graph, telegram, doc, lock, history>>
    /\ UNCHANGED ctlVars
    /\ UNCHANGED resetVars
    /\ UNCHANGED matchVars
    /\ UNCHANGED tripVars
    /\ UNCHANGED loadVars
    /\ UNCHANGED statVars
    /\ UNCHANGED pairVars
    /\ UNCHANGED loopVars
    /\ UNCHANGED escVars

\* task_exit=0; run_task "$local_next" || task_exit=$?; and the test
\* [ "$task_exit" -eq 175 ]
ShRunTask ==
    /\ shPc = "run"
    /\ \E outcome \in AgentOutcomes :
          /\ doc' = run_task_doc(doc, local_next, outcome)
          /\ taskLocks' = run_task_locks(taskLocks, local_next, outcome)
          /\ task_exit' = orAssign(0, run_task_status(outcome))
          /\ shPc' = IF orAssign(0, run_task_status(outcome)) = RateLimited
                     THEN "rate" ELSE "count"
    /\ UNCHANGED <<WORKSTREAM, local_next, CONSECUTIVE_FAILURES, shExit>>
    /\ UNCHANGED <<graph, telegram, lock, history>>
    /\ UNCHANGED ctlVars
    /\ UNCHANGED resetVars
    /\ UNCHANGED matchVars
    /\ UNCHANGED tripVars
    /\ UNCHANGED loadVars
    /\ UNCHANGED statVars
    /\ UNCHANGED pairVars
    /\ UNCHANGED loopVars
    /\ UNCHANGED escVars

\* main loop, the rate-limit branch.  Its first command is `local
\* rate_wait`, at the top level of the script: bash refuses `local` outside
\* a function with status 1, and under `set -euo pipefail` (line 2) a
\* command that fails ends the script with that status.  The wait and the
\* second run_task of the branch are never reached.
ShRateLimit ==
    /\ shPc = "rate"
    /\ shPc' = "exited"
    /\ shExit' = "1"
    /\ UNCHANGED <<WORKSTREAM, local_next, task_exit, CONSECUTIVE_FAILURES,
                   taskLocks>>
    /\ UNCHANGED <<graph, telegram, doc, lock, history>>
    /\ UNCHANGED ctlVars
    /\ UNCHANGED resetVars
    /\ UNCHANGED matchVars
    /\ UNCHANGED tripVars
    /\ UNCHANGED loadVars
    /\ UNCHANGED statVars
    /\ UNCHANGED pairVars
    /\ UNCHANGED loopVars
    /\ UNCHANGED escVars

\* main loop, the count: a non-zero task_exit adds 1 and the third in a
\* row ends the script with status 1; a zero one sets the counter to 0
ShCount ==
    /\ shPc = "count"
    /\ IF task_exit # 0
       THEN /\ CONSECUTIVE_FAILURES' = CONSECUTIVE_FAILURES + 1
            /\ IF CONSECUTIVE_FAILURES + 1 >= MAX_CONSECUTIVE_FAILURES
               THEN shPc' = "exited" /\ shExit' = "1"
               ELSE shPc' = "loop" /\ UNCHANGED shExit
       ELSE /\ CONSECUTIVE_FAILURES' = 0
            /\ shPc' = "loop"
            /\ UNCHANGED shExit
    /\ UNCHANGED <<WORKSTREAM, local_next, task_exit, taskLocks>>
    /\ UNCHANGED <<graph, telegram, doc, lock, history>>
    /\ UNCHANGED ctlVars
    /\ UNCHANGED resetVars
    /\ UNCHANGED matchVars
    /\ UNCHANGED tripVars
    /\ UNCHANGED loadVars
    /\ UNCHANGED statVars
    /\ UNCHANGED pairVars
    /\ UNCHANGED loopVars
    /\ UNCHANGED escVars

\* One bart.sh, alone in the project, on a fresh task document.
InitShell ==
    /\ graph \in {FlatGraph, ParGraph, StrideGraph}
    /\ doc = FreshDoc
    /\ lock = NoLock
    /\ history = << >>
    /\ InitProcs
    /\ InitReset
    /\ InitEsc
    /\ InitLoop
    /\ InitMatch
    /\ InitPair
    /\ InitNet
    /\ InitSh
    /\ InitTrip
    /\ InitLoad
    /\ InitStat

NextShell ==
    \/ ShStart
    \/ ShFind
    \/ ShRunTask
    \/ ShRateLimit
    \/ ShCount

SpecShell == InitShell /\ [][NextShell]_vars

(***************************** an undisturbed unattended run ****************)
\* One `bart run` without --workstream and with auto-continue, alone in the
\* project: no stop file, no signal, no other process, every agent exits 0.
\* The task document is any document of NTasks pending tasks whose
\* depends_on ids all name tasks of the document and form no cycle.
\* The run needs NTasks + 1 turns of its loop, the last one to find nothing
\* left; the safety limit of 100 iterations lies above that.
NoCycle(g) ==
    \E rank \in [Tasks -> 1..NTasks] :
        \A t \in Tasks : \A depId \in g.deps[t] :
            depId \in Tasks /\ rank[depId] < rank[t]

SoundGraphs ==
    {g \in [ws : {AltWs, OneWs}, deps : [Tasks -> SUBSET Tasks]] : NoCycle(g)}

InitAuto ==
    /\ graph \in SoundGraphs
    /\ doc = FreshDoc
    /\ lock = NoLock
    /\ history = << >>
    /\ InitProcs
    /\ InitReset
    /\ InitEsc
    /\ InitLoop
    /\ InitMatch
    /\ InitPair
    /\ InitSh
    /\ telegram \in Nets
    /\ InitTrip
    /\ InitLoad
    /\ InitStat

\* `bart run` with no task id and no --workstream
StartPlain(p) == StartAll(p) /\ filter'[p] = NoFilter

\* the agent's close event with code 0
AgentOk(p) == AgentExit(p) /\ pc'[p] = "fin_write"

\* runAgent returns true: with auto-continue nobody is asked
FinAuto(p) == FinNotify(p) /\ pc'[p] = "loop"

NextAuto ==
    \/ StartPlain(1)
    \/ Acquire(1)
    \/ Select(1)
    \/ RaWrite(1)
    \/ Spawn(1)
    \/ AgentOk(1)
    \/ FinWrite(1)
    \/ FinAuto(1)
    \/ Finish(1)
    \/ Unlink(1)

\* The process is the only one at work and none of its steps waits for
\* anything but its own agent, which exits: a step that can be taken is
\* taken.
SpecAuto == InitAuto /\ [][NextAuto]_vars /\ WF_vars(NextAuto)

(***************************** a long unattended run ************************)
\* One `bart run` with auto-continue, and a shell that resets the last task
\* whenever it has left pending.  An iteration of the loop is taken whole.
Redo == NTasks

InitLimit ==
    /\ graph \in {FlatGraph, ParGraph}
    /\ doc = FreshDoc
    /\ lock = NoLock
    /\ history = << >>
    /\ InitProcs
    /\ InitReset
    /\ InitEsc
    /\ InitLoop
    /\ InitMatch
    /\ InitPair
    /\ InitNet
    /\ InitSh
    /\ InitTrip
    /\ InitLoad
    /\ InitStat

\* main, one iteration of while (running) with no stop file, from the
\* safety limit to the end of runAgent: in_progress, the agent's exit code,
\* the outcome in tasks.json and in the ledger, the notifications, and
\* process.exit on a non-zero exit code.  The graphs of this specification
\* have no dependencies, so an iteration that finds no task never waits.
Round(p) ==
    /\ pc[p] = "loop"
    /\ ~checkStopSignal(stopFile)
    /\ \A u \in Shells : rpc[u] = "idle"
    /\ iterations[p] < MaxRounds
    /\ Len(history) < 2 * MaxRounds
    /\ LET t == findNextTask(doc, graph, filter[p]) IN
       IF overLimit(iterations[p] + 1) \/ t = NoTask
       THEN /\ iterations' = [iterations EXCEPT ![p] = @ + 1]
            /\ Goto(p, "finish")
            /\ lastNote' = [lastNote EXCEPT ![p] =
                  IF /\ ~overLimit(iterations[p] + 1)
                     /\ remaining(doc, graph, filter[p]) # {}
                     /\ depsFromOtherWs(doc, graph, filter[p]) # {}
                  THEN BlockedNote(depsFromOtherWs(doc, graph, filter[p]))
                  ELSE @]
            /\ UNCHANGED <<doc, history, alive, filter, specific, next, snap,
                           currentTaskId, currentChild, shuttingDown, signalsSeen,
                           firedMilestones, waited, exitStatus, notified,
                           startPct, critical, pairings>>
       ELSE \E exitCode \in {0, 1} :
            LET started == MarkInProgress(doc, t)
                resets == countResetsForTask(history, t, ThisPlan)
                ledger == appendHistory(history,
                                 HistoryEntry(IF exitCode = 0 THEN "completed"
                                              ELSE "error", t, ThisPlan, resets))
                fresh == NewMilestones(firedMilestones[p], FALSE,
                                       CompletedCount(MarkCompleted(started, t)))
            IN /\ history' = ledger
               /\ pairings' = recordPairing(pairings, t, exitCode = 0)
               /\ IF exitCode = 0
                  THEN /\ doc' = MarkCompleted(started, t)
                       /\ iterations' = [iterations EXCEPT ![p] = @ + 1]
                       /\ notified' = [notified EXCEPT ![p] =
                             [th \in MILESTONE_THRESHOLDS |->
                                IF th \in fresh THEN @[th] + 1 ELSE @[th]]]
                       /\ firedMilestones' = [firedMilestones EXCEPT ![p] =
                                                 @ \cup fresh]
                       /\ UNCHANGED <<alive, pc, filter, specific, next, snap,
                                      currentTaskId, currentChild, shuttingDown, signalsSeen,
                                      waited, exitStatus, startPct, critical,
                                      lastNote>>
                  ELSE /\ doc' = MarkError(started, t)
                       /\ critical' = [critical EXCEPT ![p] =
                             Escalation(resets + 1,
                                        countWorkstreamErrors(ledger, graph,
                                                              graph.ws[t], ThisPlan))]
                       /\ Die(p, "1")
                       /\ lastNote' = [lastNote EXCEPT ![p] = NoNote]
    /\ UNCHANGED <<graph, telegram, lock, stopFile, stopWrites, sameTaskFailures>>
    /\ UNCHANGED resetVars
    /\ UNCHANGED matchVars
    /\ UNCHANGED shVars
    /\ UNCHANGED tripVars
    /\ UNCHANGED loadVars
    /\ UNCHANGED statVars
    /\ UNCHANGED <<pairPc, pairCopy, pairEntry>>

\* main, case "reset" of the last task, from the first line to the last,
\* when the reset puts the task back to pending
ResetRedo(u) ==
    /\ \A v \in Shells : rpc[v] = "idle"
    /\ doc[Redo].status \in {"completed", "error"}
    /\ Len(history) < 2 * MaxRounds
    /\ doc' = ResetTask(doc, Redo)
    /\ history' = appendHistory(history,
                         HistoryEntry("reset", Redo, ThisPlan,
                                      countResetsForTask(history, Redo, ThisPlan) + 1))
    /\ UNCHANGED <<graph, telegram, lock, rpc, rtask, rsnap, rprev, resetsDone>>
    /\ UNCHANGED ctlVars
    /\ UNCHANGED matchVars
    /\ UNCHANGED shVars
    /\ UNCHANGED tripVars
    /\ UNCHANGED loadVars
    /\ UNCHANGED statVars
    /\ UNCHANGED pairVars
    /\ UNCHANGED loopVars
    /\ UNCHANGED escVars

NextLimit ==
    \/ StartAll(1)
    \/ Acquire(1)
    \/ Round(1)
    \/ Finish(1)
    \/ Unlink(1)
    \/ ResetRedo("s1")

SpecLimit == InitLimit /\ [][NextLimit]_vars

(***************************** recordPairing alone **************************)
\* Processes that have each reached a terminal outcome of a task with a
\* specialist record it; the load and the save of recordPairing are taken
\* apart.
InitPairing ==
    /\ graph = ParGraph
    /\ doc = FreshDoc
    /\ lock = NoLock
    /\ history = << >>
    /\ InitProcs
    /\ InitReset
    /\ InitEsc
    /\ InitLoop
    /\ InitMatch
    /\ InitPair
    /\ InitNet
    /\ InitSh
    /\ InitTrip
    /\ InitLoad
    /\ InitStat

\* recordPairing: loadSpecialistModel(cwd) and the entry to push
PairLoad(p) ==
    /\ pairPc[p] = "idle"
    /\ Len(pairings) < MaxPairs
    /\ \E t \in Tasks, success \in BOOLEAN :
          /\ SpecialistOf[t] # NoSpecialist
          /\ pairEntry' = [pairEntry EXCEPT ![p] = PairingEntry(t, success)]
    /\ pairCopy' = [pairCopy EXCEPT ![p] = pairings]
    /\ pairPc' = [pairPc EXCEPT ![p] = "loaded"]
    /\ UNCHANGED <<graph, telegram, doc, lock, history, pairings>>
    /\ UNCHANGED ctlVars
    /\ UNCHANGED resetVars
    /\ UNCHANGED matchVars
    /\ UNCHANGED shVars
    /\ UNCHANGED tripVars
    /\ UNCHANGED loadVars
    /\ UNCHANGED statVars
    /\ UNCHANGED loopVars
    /\ UNCHANGED escVars

\* recordPairing: model.entries.push(...); saveSpecialistModel(cwd, model)
PairSave(p) ==
    /\ pairPc[p] = "loaded"
    /\ pairings' = Append(pairCopy[p], pairEntry[p])
    /\ pairPc' = [pairPc EXCEPT ![p] = "idle"]
    /\ pairCopy' = [pairCopy EXCEPT ![p] = << >>]
    /\ pairEntry' = [pairEntry EXCEPT ![p] = NoEntry]
    /\ UNCHANGED <<graph, telegram, doc, lock, history>>
    /\ UNCHANGED ctlVars
    /\ UNCHANGED resetVars
    /\ UNCHANGED matchVars
    /\ UNCHANGED shVars
    /\ UNCHANGED tripVars
    /\ UNCHANGED loadVars
    /\ UNCHANGED statVars
    /\ UNCHANGED loopVars
    /\ UNCHANGED escVars

NextPair ==
    \/ \E p \in Procs : PairLoad(p)
    \/ \E p \in Procs : PairSave(p)

SpecPair == InitPairing /\ [][NextPair]_vars

(***************************** computeSpecialistStats alone *****************)
\* `bart specialists --history` on a history of at most MaxEntries entries.
StatEvents == {"completed", "error", "reset"}

StatEntry == [event : StatEvents, specialist : SpecialistNames \cup {NoSpecialist}]

InitStatsCall ==
    /\ graph = ParGraph
    /\ doc = FreshDoc
    /\ lock = NoLock
    /\ history = << >>
    /\ InitProcs
    /\ InitReset
    /\ InitEsc
    /\ InitLoop
    /\ InitMatch
    /\ InitPair
    /\ InitNet
    /\ InitSh
    /\ InitTrip
    /\ InitLoad
    /\ \E k \in 0..MaxEntries : statEntries \in [1..k -> StatEntry]
    /\ statResult = NoStats

\* printSpecialistHistory: computeSpecialistStats(entries)
StatsStep ==
    /\ ~statResult.called
    /\ statResult' = [called |-> TRUE, rows |-> computeSpecialistStats(statEntries)]
    /\ UNCHANGED <<graph, telegram, doc, lock, history, statEntries>>
    /\ UNCHANGED ctlVars
    /\ UNCHANGED resetVars
    /\ UNCHANGED shVars
    /\ UNCHANGED tripVars
    /\ UNCHANGED loadVars
    /\ UNCHANGED <<mTask, mResult>>
    /\ UNCHANGED pairVars
    /\ UNCHANGED loopVars
    /\ UNCHANGED escVars

NextStats == StatsStep

SpecStats == InitStatsCall /\ [][NextStats]_vars

(***************************** claims ***************************************)

\* C1: for every task graph and every workstream filter, the task that
\* findNextTask returns is pending and each of its dependencies is a task
\* of the document whose status is completed.
C1_FindNextSafe ==
    (pc[1] = "found" /\ next[1] # NoTask) =>
        /\ doc[next[1]].status = "pending"
        /\ \A depId \in graph.deps[next[1]] :
              depId \in Tasks /\ doc[depId].status = "completed"

\* findNextTask returned a task with dependencies after passing over an
\* earlier pending task of the same filter whose dependency is unmet.
C1_Witness ==
    /\ pc[1] = "found"
    /\ next[1] # NoTask
    /\ graph.deps[next[1]] # {}
    /\ \E t \in Tasks :
          /\ t < next[1]
          /\ doc[t].status = "pending"
          /\ (filter[1] = NoFilter \/ graph.ws[t] = filter[1])
          /\ \E depId \in graph.deps[t] :
                depId \notin Tasks \/ doc[depId].status # "completed"

\* C2: a task that lists a dependency id absent from the document is never
\* the task the run-all loop hands to runAgent, whatever the other tasks'
\* completions, errors and resets.
C2_MissingDepNeverSelected ==
    \A p \in Procs :
        (specific[p] = NoTask /\ next[p] # NoTask) => graph.deps[next[p]] \subseteq Tasks

\* The loop has ended with every other task completed and the task with
\* the absent dependency still pending.
C2_Witness ==
    /\ pc[1] = "finish"
    /\ specific[1] = NoTask
    /\ \E t \in Tasks :
          /\ MissingId \in graph.deps[t]
          /\ doc[t].status = "pending"
          /\ \A u \in Tasks \ {t} : doc[u].status = "completed"

\* C3: every change of a task's status on disk is pending -> in_progress,
\* in_progress -> completed, in_progress -> error or in_progress -> pending,
\* or is the move to pending made by `bart reset`.
C3_StateMachine ==
    [][\A t \in Tasks :
          doc'[t].status # doc[t].status =>
             \/ <<doc[t].status, doc'[t].status>> \in
                   {<<"pending", "in_progress">>, <<"in_progress", "completed">>,
                    <<"in_progress", "error">>, <<"in_progress", "pending">>}
             \/ \E u \in Shells :
                   rpc[u] = "write" /\ rpc'[u] = "append" /\ doc'[t].status = "pending"]_vars

\* C4: in a run-all loop, after the agent's non-zero exit has been recorded
\* as error, the process goes on to the next iteration of the loop.
C4_FailureDoesNotAbort ==
    [][\A p \in Procs :
          (/\ pc[p] = "err_notify"
           /\ specific[p] = NoTask
           /\ ~shuttingDown[p]
           /\ pc'[p] # "err_notify"
           /\ exitStatus'[p] # "killed")
          => (alive'[p] /\ pc'[p] = "loop")]_vars

\* C5: when the signal handler runs while a task is in_progress under this
\* process, the task is pending with started_at cleared afterwards.
C5_SignalReverts ==
    [][\A p \in Procs :
          (/\ ~shuttingDown[p] /\ shuttingDown'[p]
           /\ pc[p] \in {"spawn", "agent"}
           /\ doc[next[p]].status = "in_progress")
          => (doc'[next[p]].status = "pending" /\ ~doc'[next[p]].started_at)]_vars

\* C6: a starting process goes on to revert the in_progress tasks exactly
\* when the lock file, as it reads it, does not name another live process;
\* the recovery write puts every task it read as in_progress to pending
\* with started_at cleared and leaves the others as read; a process that
\* found the lock held by another live process writes nothing.
C6_RecoveryOnlyWithoutLiveHolder ==
    [][\A p \in Procs :
          /\ (pc[p] = "idle" /\ pc'[p] # "idle") =>
                /\ doc' = doc
                /\ IF lock \in Procs \ {p} /\ alive[lock]
                   THEN pc'[p] = "acquire"
                   ELSE IF \E t \in Tasks : doc[t].status = "in_progress"
                        THEN pc'[p] = "recover_write" /\ snap'[p] = doc
                        ELSE pc'[p] = "acquire"
          /\ (pc[p] = "recover_write" /\ pc'[p] # "recover_write" /\ alive'[p]) =>
                \A t \in Tasks :
                    IF snap[p][t].status = "in_progress"
                    THEN doc'[t].status = "pending" /\ ~doc'[t].started_at
                    ELSE doc'[t] = snap[p][t]]_vars

\* A process has started while the lock names a killed process and has
\* reverted what that process left in_progress.
C6_Witness ==
    \E p \in Procs :
        /\ pc[p] = "acquire"
        /\ lock \in Procs \ {p}
        /\ exitStatus[lock] = "killed"
        /\ snap[p] # NoSnap
        /\ doc = snap[p]
        /\ \A t \in Tasks : doc[t].status # "in_progress"

\* C7: with every live process restricted to its own workstream, a write
\* of the document by runAgent leaves the tasks of the other workstreams
\* as they are on disk.
C7_NoClobber ==
    [][\A p \in Procs :
          (/\ pc[p] \in {"ra_write", "err_write", "fin_write"}
           /\ pc'[p] # pc[p]
           /\ alive'[p]
           /\ filter[p] \in Workstreams
           /\ \A q \in Procs \ {p} :
                 alive[q] => filter[q] \in Workstreams \ {filter[p]})
          => \A t \in Tasks : graph.ws[t] # filter[p] => doc'[t] = doc[t]]_vars

\* C8: the write of `bart reset` leaves the task pending with started_at,
\* completed_at and error null, whatever its status was, and a second
\* reset applied to the result changes nothing.
C8_ResetState ==
    [][\A u \in Shells :
          (rpc[u] = "write" /\ rpc'[u] = "append") =>
             /\ doc'[rtask[u]].status = "pending"
             /\ ~doc'[rtask[u]].started_at
             /\ ~doc'[rtask[u]].completed_at
             /\ ~doc'[rtask[u]].error
             /\ ResetTask(doc', rtask[u]) = doc']_vars

\* The second reset of a task has been written, on a task that had ended
\* in error since the first.
C8_Witness ==
    \E u \in Shells :
        /\ rpc[u] = "append"
        /\ rprev[u] = 1
        /\ rsnap[u][rtask[u]].status = "error"
        /\ rsnap[u][rtask[u]].error
        /\ doc[rtask[u]] = NewTask

\* C9: every reset entry of the ledger carries resets = 1 + the number of
\* reset entries before it for the same task and plan, and every finished
\* reset command has appended exactly one entry.
C9_ResetCount ==
    /\ \A i \in 1..Len(history) :
          history[i].event = "reset" =>
             history[i].resets =
                1 + Cardinality({j \in 1..(i - 1) :
                                    /\ history[j].event = "reset"
                                    /\ history[j].task_id = history[i].task_id
                                    /\ history[j].plan_slug = history[i].plan_slug})
    /\ Cardinality({i \in 1..Len(history) :
                       history[i].event = "reset" /\ history[i].plan_slug = ThisPlan})
          = resetsDone

\* C10: a process notifies each milestone threshold at most once, and never
\* one that the completed percentage had reached when its run started.
C10_MilestoneOnce ==
    \A p \in Procs : \A th \in MILESTONE_THRESHOLDS :
        /\ notified[p][th] <= 1
        /\ (startPct[p] >= th => notified[p][th] = 0)

\* C11: when a run records a task's error, it sends a critical notification
\* if the ledger holds two resets of that task since its last completion,
\* and also if three tasks of the task's workstream have status error and
\* an error entry that no completed entry of theirs follows.
C11_Escalates ==
    [][(/\ Len(history') = Len(history) + 1
        /\ history'[Len(history')].event = "error")
       => LET e == history'[Len(history')]
              h == history'
              After(i, t, ev) == \E j \in (i + 1)..Len(h) :
                                    /\ h[j].event = ev
                                    /\ h[j].task_id = t
                                    /\ h[j].plan_slug = ThisPlan
              resetsSinceDone ==
                  {i \in 1..Len(h) : /\ h[i].event = "reset"
                                     /\ h[i].task_id = e.task_id
                                     /\ h[i].plan_slug = ThisPlan
                                     /\ ~After(i, e.task_id, "completed")}
              errored ==
                  {t \in Tasks :
                      /\ graph.ws[t] = graph.ws[e.task_id]
                      /\ doc'[t].status = "error"
                      /\ \E i \in 1..Len(h) :
                            /\ h[i].event = "error"
                            /\ h[i].task_id = t
                            /\ h[i].plan_slug = ThisPlan
                            /\ ~After(i, t, "completed")}
          IN (Cardinality(resetsSinceDone) >= 2 \/ Cardinality(errored) >= 3)
                => \E p \in Procs : critical'[p] # "none"]_vars

C13_FirstEligible ==
    pc[1] = "found" =>
       LET ok(t) == /\ doc[t].status = "pending"
                    /\ (filter[1] = NoFilter \/ graph.ws[t] = filter[1])
                    /\ \A depId \in graph.deps[t] :
                          depId \in Tasks /\ doc[depId].status = "completed"
       IN IF \E t \in Tasks : ok(t)
          THEN /\ next[1] \in Tasks
               /\ ok(next[1])
               /\ \A u \in Tasks : u < next[1] => ~ok(u)
          ELSE next[1] = NoTask

\* With a workstream asked for, findNextTask passed over an earlier pending
\* task of another workstream whose dependencies are met.
C13_Witness ==
    /\ pc[1] = "found"
    /\ filter[1] # NoFilter
    /\ next[1] \in Tasks
    /\ \E u \in Tasks :
          /\ u < next[1]
          /\ doc[u].status = "pending"
          /\ graph.ws[u] # filter[1]
          /\ allDepsMet(doc, graph, u)

\* C14: when the stop file is present at the check that opens a loop
\* iteration, the controller deletes it and the run ends with a "stopped"
\* notice, without selecting or starting a task; writing the stop file does
\* not disturb a task that is running, which goes on to its normal end.
C14_StopEndsRun ==
    [][ /\ (stopFile /\ pc[1] = "loop" /\ pc'[1] # "loop")
            => /\ ~stopFile'
               /\ pc'[1] = "finish"
               /\ lastNote'[1] = StoppedNote
               /\ next'[1] = next[1]
               /\ iterations'[1] = iterations[1]
               /\ doc' = doc
               /\ history' = history
        /\ \A p \in Procs :
              (pc[p] \in {"ra_write", "spawn", "agent"} /\ (stopFile \/ stopFile'))
                 => /\ pc'[p] \in {"ra_write", "spawn", "agent", "err_write",
                                   "fin_write"}
                    /\ currentChild'[p] # "killed"
      ]_vars

\* C14 happens: the run ended on the stop file after completing a task,
\* while another task was eligible.
C14_Witness ==
    /\ pc[1] = "finish"
    /\ lastNote[1] = StoppedNote
    /\ ~stopFile
    /\ iterations[1] >= 1
    /\ \E t \in Tasks : doc[t].status = "completed"
    /\ findNextTask(doc, graph, filter[1]) # NoTask

\* A pending task in the scope of the run of process p.
InScope(p, t) ==
    /\ doc[t].status = "pending"
    /\ (filter[p] = NoFilter \/ graph.ws[t] = filter[p])

\* A dependency of t that is not completed.
Unmet(t, depId) ==
    /\ depId \in graph.deps[t]
    /\ ~(depId \in Tasks /\ doc[depId].status = "completed")

\* The loop iteration of process 1 reaches its decision: no stop file and
\* no eligible task.
NothingEligible ==
    /\ pc[1] = "loop"
    /\ pc'[1] # "loop"
    /\ ~stopFile
    /\ findNextTask(doc, graph, filter[1]) = NoTask

C16_SameWorkstreamWaits ==
    [][ (/\ NothingEligible
         /\ \E t \in Tasks : InScope(1, t)
         /\ \A t \in Tasks : \A depId \in graph.deps[t] :
               (InScope(1, t) /\ Unmet(t, depId))
                  => (depId \in Tasks /\ graph.ws[depId] = graph.ws[t]))
           => pc'[1] = "wait"
      ]_vars

Multiples(k, ceiling) == {n \in 0..ceiling : n % k = 0}

\* The polling loop of process 1 takes a turn.
Polls ==
    /\ pc[1] = "wait"
    /\ (pc'[1] # "wait" \/ waited'[1] # waited[1])

\* C17: the wait polls in steps of 5 seconds: the time waited is a multiple
\* of 5 below 120 while the wait lasts, a poll that stays in the wait adds
\* 5 seconds, a poll that finds the stop file deletes it and ends the run,
\* and the poll at 120 seconds leaves the wait.
C17_PollingBounded ==
    [][ /\ pc'[1] = "wait"
            => waited'[1] \in Multiples(PollSeconds, WaitCeiling - PollSeconds)
        /\ (Polls /\ pc'[1] = "wait")
            => waited'[1] = waited[1] + PollSeconds
        /\ (Polls /\ stopFile)
            => (pc'[1] = "finish" /\ ~stopFile' /\ lastNote'[1] = StoppedNote)
        /\ (Polls /\ waited[1] + PollSeconds >= WaitCeiling)
            => pc'[1] = "finish"
      ]_vars

\* C17 happens: the wait has lasted to the last poll before the ceiling.
C17_Witness ==
    /\ pc[1] = "wait"
    /\ waited[1] = WaitCeiling - PollSeconds
    /\ ~stopFile

\* The ledger entries that record a task run to its end.
Outcomes == {i \in DOMAIN history : history[i].event \in {"completed", "error"}}

\* C18: one unattended run performs at most 100 iterations of its loop (the
\* counter passes 100 only on the iteration that breaks out), and the tasks
\* it has run number at most 100, whatever resets return tasks to pending.
C18_AtMostHundred ==
    /\ iterations[1] <= SafetyLimit + 1
    /\ (pc[1] = "loop" => iterations[1] <= SafetyLimit)
    /\ Cardinality(Outcomes) <= SafetyLimit

\* C18 happens: the run stopped on the safety limit after 100 tasks, with a
\* task reset to pending and eligible.
C18_Witness ==
    /\ pc[1] = "finish"
    /\ iterations[1] = SafetyLimit + 1
    /\ Cardinality(Outcomes) = SafetyLimit
    /\ findNextTask(doc, graph, filter[1]) = Redo

\* C19: a task with status error leaves that status only by a `bart reset`
\* of that task or by a `bart run` given its id: the run-all selection and
\* the stale-task recovery never change it.
C19_ErrorStays ==
    [][ \A t \in Tasks :
          (doc[t].status = "error" /\ doc'[t].status # "error")
             => \/ \E u \in Shells : rtask[u] = t /\ rpc'[u] # rpc[u]
                \/ \E p \in Procs : /\ specific[p] = t
                                     /\ pc[p] = "ra_write"
                                     /\ pc'[p] # "ra_write"
      ]_vars

\* C20: the lock file is deleted only by the process whose pid it holds:
\* a step that removes the file is a step of the process named in it.
C20_OnlyOwnerUnlinks ==
    [][ (lock # NoLock /\ lock' = NoLock)
           => (pc[lock] = "unlink" /\ pc'[lock] = "dead")
      ]_vars

\* C21: a process that has received a termination signal ends with exit
\* status 130 (unless it is killed outright), never with the status of a
\* run that finished normally or failed.
C21_SignalStatus ==
    [][ \A p \in Procs :
          (shuttingDown[p] /\ pc[p] # "dead" /\ pc'[p] = "dead")
             => exitStatus'[p] \in {"130", "killed"}
      ]_vars

\* C22: the ledger only grows at its end: a step that changes it leaves the
\* earlier entries as an unchanged prefix and adds one entry, and the entry
\* added by a process that records an outcome is that outcome, so that the
\* entries of one process stand in the order of its outcomes.
C22_AppendOnly ==
    [][ /\ history' # history
            => /\ Len(history') = Len(history) + 1
               /\ SubSeq(history', 1, Len(history)) = history
        /\ \A p \in Procs :
              /\ (pc[p] = "fin_write" /\ pc'[p] = "fin_notify")
                    => /\ history'[Len(history')].event = "completed"
                       /\ history'[Len(history')].task_id = next[p]
              /\ (pc[p] = "err_write" /\ pc'[p] = "err_notify")
                    => /\ history'[Len(history')].event = "error"
                       /\ history'[Len(history')].task_id = next[p]
      ]_vars

\* C22 happens: a completion, then a reset, then another outcome of the
\* run stand in the ledger in that order.
C22_Witness ==
    \E i, j, k \in DOMAIN history :
        /\ i < j /\ j < k
        /\ history[i].event = "completed"
        /\ history[j].event = "reset"
        /\ history[k].event \in {"completed", "error"}
        /\ history[k].task_id # history[i].task_id

\* The last entry of the ledger after the step is of this kind for this
\* task in this plan, and is the only entry the step added.
Recorded(kind, t) ==
    /\ Len(history') = Len(history) + 1
    /\ history'[Len(history')].event = kind
    /\ history'[Len(history')].task_id = t
    /\ history'[Len(history')].plan_slug = ThisPlan

CurrentlyFailing(ws) ==
    {t \in Tasks :
        /\ graph.ws[t] = ws
        /\ \E i \in DOMAIN history :
              /\ history[i].event = "error"
              /\ history[i].task_id = t
              /\ history[i].plan_slug = ThisPlan
              /\ \A j \in DOMAIN history :
                    j > i => ~(/\ history[j].event = "completed"
                               /\ history[j].task_id = t
                               /\ history[j].plan_slug = ThisPlan)}

\* C24: for every ledger, the workstream error count is the number of
\* tasks with an error entry that no later completed entry follows; a
\* task that completed first and errored afterwards is counted.
C24_CountsCurrentErrors ==
    \A ws \in Workstreams :
        countWorkstreamErrors(history, graph, ws, ThisPlan)
            = Cardinality(CurrentlyFailing(ws))

\* C25: recording an outcome adds exactly one entry to the specialist
\* model and leaves every entry the model held in place, also when several
\* processes record outcomes at the same time.
C25_ModelOnlyGrows ==
    [][ \A p \in Procs :
          (pairPc[p] = "loaded" /\ pairPc'[p] = "idle")
             => /\ Len(pairings') = Len(pairings) + 1
                /\ SubSeq(pairings', 1, Len(pairings)) = pairings
      ]_vars

\* The bracketed tokens of the title that name a specialist of the list,
\* case-insensitively.
KnownTags ==
    {Lower(mTask.tags[i]) : i \in DOMAIN mTask.tags}
        \cap {Lower(mTask.specialists[j]) : j \in DOMAIN mTask.specialists}

\* The learned-model rule accepts: enough entries, and the best confidence
\* reaches the threshold.
ModelAccepts ==
    /\ ModelEntries(mTask) >= MIN_SAMPLES_FOR_TRUST
    /\ \E j \in DOMAIN mTask.specialists :
          modelConfidence(mTask, mTask.specialists[j]) * 100
             >= AUTO_MATCH_CONFIDENCE_THRESHOLD * ConfidenceUnit

\* The file-extension rule accepts.
FilesAccept ==
    /\ mTask.kw > 0
    /\ \E j \in DOMAIN mTask.specialists :
          /\ mTask.kwScore[mTask.specialists[j]] >= 2
          /\ RoundPct(mTask.kwScore[mTask.specialists[j]], mTask.kw)
                >= AUTO_MATCH_CONFIDENCE_THRESHOLD

\* C26: the rules are applied in the order tag, model, files, words and
\* the first that accepts decides; a bracketed token of the title that
\* names a specialist of the list in any letter case is always the answer.
C26_Precedence ==
    mResult.called =>
        /\ KnownTags # {} => (mResult.via = "tag" /\ Lower(mResult.name) \in KnownTags)
        /\ mResult.via = "tag" => KnownTags # {}
        /\ (KnownTags = {} /\ ModelAccepts) => mResult.via = "model"
        /\ (KnownTags = {} /\ ~ModelAccepts /\ FilesAccept) => mResult.via = "files"
        /\ mResult.via = "words" => (KnownTags = {} /\ ~ModelAccepts /\ ~FilesAccept)

\* C27: a specialist returned by the learned-model rule has at least 5
\* entries of its own in the model, and its confidence, 0.4 of its success
\* rate plus 0.6 of its weighted rate, is at least 80%.
C27_ModelRuleTrusted ==
    (mResult.called /\ mResult.via = "model") =>
        LET n == mTask.samples[mResult.name]
            k == mTask.successes[mResult.name]
            w == mTask.wRate[mResult.name]
        IN /\ n >= MIN_SAMPLES_FOR_TRUST
           /\ 4 * 1000 * k + 6 * w * n >= 8 * 1000 * n

\* C27 happens: the model rule returned a specialist whose confidence is
\* exactly 80% although another has a perfect record on too few entries.
C27_Witness ==
    /\ mResult.called
    /\ mResult.via = "model"
    /\ mResult.num * 100 = AUTO_MATCH_CONFIDENCE_THRESHOLD * ConfidenceUnit
    /\ \E j \in DOMAIN mTask.specialists :
          LET o == mTask.specialists[j]
          IN /\ o # mResult.name
             /\ mTask.samples[o] = MIN_SAMPLES_FOR_TRUST - 1
             /\ mTask.successes[o] = mTask.samples[o]

\* C28: when a completion brings the completed percentage to pct, the
\* thresholds the process notifies are exactly those at most pct that the
\* percentage had not reached when its run started and that it has not
\* notified before in this run.
C28_ExactMilestones ==
    [][\A p \in Procs :
          (pc[p] = "fin_notify" /\ pc'[p] \in {"loop", "finish"}) =>
              LET pct == RoundPct(CompletedCount(snap[p]), NTasks)
              IN {th \in MILESTONE_THRESHOLDS : notified'[p][th] > notified[p][th]}
                 = {th \in MILESTONE_THRESHOLDS :
                       /\ th <= pct
                       /\ startPct[p] < th
                       /\ notified[p][th] = 0}]_vars

\* the entries of statEntries with this specialist and this event
StatCount(name, event) ==
    Cardinality({i \in DOMAIN statEntries :
                    /\ StatName(statEntries[i]) = name
                    /\ statEntries[i].event = event})

\* C29: computeSpecialistStats returns one row for each specialist of the
\* entries (the default agent for entries without one) and no other row;
\* the row's completed, errored and total_resets are the numbers of the
\* specialist's completed, error and reset entries, its total is completed
\* plus errored, and its reset_rate is total_resets / total, 0 when total
\* is 0.
C29_StatsAreCounts ==
    statResult.called =>
        LET rows == statResult.rows
        IN /\ {rows[i].name : i \in DOMAIN rows}
                 = {StatName(statEntries[i]) : i \in DOMAIN statEntries}
           /\ \A i, j \in DOMAIN rows : rows[i].name = rows[j].name => i = j
           /\ \A i \in DOMAIN rows :
                 LET r == rows[i] IN
                 /\ r.completed = StatCount(r.name, "completed")
                 /\ r.errored = StatCount(r.name, "error")
                 /\ r.total = r.completed + r.errored
                 /\ r.total_resets = StatCount(r.name, "reset")
                 /\ r.reset_rate.den > 0
                 /\ IF r.total = 0
                    THEN r.reset_rate.num = 0
                    ELSE r.reset_rate.num * r.total
                            = r.total_resets * r.reset_rate.den

\* three completed, one error and one reset of a specialist: total 4,
\* completed 3, errored 1, total_resets 1, reset_rate 1/4
C29_Witness ==
    /\ statResult.called
    /\ Len(statEntries) = 5
    /\ \A i \in DOMAIN statEntries : statEntries[i].specialist = "alpha"
    /\ StatCount("alpha", "completed") = 3
    /\ StatCount("alpha", "error") = 1
    /\ StatCount("alpha", "reset") = 1
    /\ Len(statResult.rows) = 1
    /\ statResult.rows[1].total = 4
    /\ statResult.rows[1].completed = 3
    /\ statResult.rows[1].errored = 1
    /\ statResult.rows[1].total_resets = 1
    /\ statResult.rows[1].reset_rate.num * 4 = statResult.rows[1].reset_rate.den

\* C30: a `bart stop` typed when the stop file is already there changes
\* nothing but the number of requests, and the run that sees the file
\* leaves no request behind, however many were made; a termination signal
\* delivered to a process that has already had one changes neither the
\* tasks, nor the lock, nor the child process.
C30_Idempotent ==
    [][/\ (stopWrites >= 1 /\ stopWrites' > stopWrites)
           => /\ stopFile' = stopFile
              /\ UNCHANGED <<graph, telegram, doc, lock, history, lastNote>>
              /\ UNCHANGED ctlVars
       /\ \A p \in Procs :
             (pc[p] = "loop" /\ stopFile /\ pc'[p] \notin {"loop", "dead"})
                => (~stopFile' /\ stopWrites' = 0 /\ pc'[p] = "finish")
       /\ \A p \in Procs :
             (signalsSeen[p] >= 1 /\ signalsSeen'[p] > signalsSeen[p])
                => /\ doc' = doc
                   /\ lock' = lock
                   /\ currentChild' = currentChild
                   /\ shuttingDown' = shuttingDown]_vars

\* the agent is at work, the process has been sent two signals and the
\* stop file has been written twice
C30_Witness ==
    /\ pc[1] = "agent"
    /\ signalsSeen[1] = 2
    /\ stopWrites = 2
    /\ stopFile

\* C31: whatever becomes of a notification, the step that sends it changes
\* no task and no history entry; after the started and the completed
\* notification the run goes on (to the agent, to the next iteration or to
\* its regular end), and after the error notification it ends with the
\* status of a failed task.
C31_NotifyNeverFails ==
    [][\A p \in Procs :
          (pc[p] \in {"spawn", "fin_notify", "err_notify"} /\ pc'[p] # pc[p]) =>
              /\ doc' = doc
              /\ history' = history
              /\ pc[p] = "spawn" => pc'[p] = "agent"
              /\ pc[p] = "fin_notify" => pc'[p] \in {"loop", "finish"}
              /\ pc[p] = "err_notify" => (pc'[p] = "dead" /\ exitStatus'[p] = "1")]_vars

\* a task has been completed and the run goes on although no notification
\* could be delivered
C31_Witness ==
    /\ telegram \in {"rejecting", "down"}
    /\ pc[1] = "loop"
    /\ \E t \in Tasks : doc[t].status = "completed"
    /\ \E i \in DOMAIN history : history[i].event = "completed"

\* the values of the lines that are JSON, in file order: Parsed(n) for the
\* first n lines
RECURSIVE Parsed(_)
Parsed(n) ==
    IF n = 0 THEN << >>
    ELSE IF histLines[n].kind = "entry" THEN Append(Parsed(n - 1), histLines[n].id)
    ELSE IF histLines[n].kind = "scalar" THEN Append(Parsed(n - 1), 0)
    ELSE Parsed(n - 1)

\* C32: loadHistory returns whatever lines of the file cannot be parsed,
\* and what it returns is the values of the lines that can, in file order.
C32_LoadSkipsBadLines ==
    loaded.called =>
        /\ ~loaded.failed
        /\ loaded.entries = Parsed(Len(histLines))

\* a file with an entry, a line that is no JSON, a cut entry and a second
\* entry has been loaded: the two entries are returned in their order
C32_Witness ==
    /\ loaded.called
    /\ \E i, j, k, l \in DOMAIN histLines :
          /\ i < j /\ j < k /\ k < l
          /\ histLines[i] = JsonLine(2)
          /\ histLines[j].kind = "garbage"
          /\ histLines[k].kind = "cut"
          /\ histLines[l] = JsonLine(1)
    /\ \E a \in DOMAIN loaded.entries :
          /\ a + 1 \in DOMAIN loaded.entries
          /\ loaded.entries[a] = 2
          /\ loaded.entries[a + 1] = 1

ExecutedByOther(p, t) ==
    \E q \in Procs \ {p} :
        /\ alive[q]
        /\ pc[q] \in {"spawn", "agent"}
        /\ next[q] = t

\* C34: the recovery write of a starting process leaves in_progress every
\* task that another live process is executing.
C34_RecoverySparesLive ==
    [][\A p \in Procs :
          (pc[p] = "recover_write" /\ pc'[p] \notin {"recover_write", "dead"}) =>
              \A t \in Tasks :
                  (doc[t].status = "in_progress" /\ ExecutedByOther(p, t))
                      => doc'[t].status = "in_progress"]_vars

\* C35: two live unattended runs with the same workstream filter (or both
\* without one) never have their agents at work on the same task.
C35_OneAgentPerTask ==
    \A p, q \in Procs :
        (/\ p # q
         /\ alive[p] /\ alive[q]
         /\ specific[p] = NoTask /\ specific[q] = NoTask
         /\ filter[p] = filter[q]
         /\ pc[p] = "agent" /\ pc[q] = "agent")
            => next[p] # next[q]

\* C36: a stop request is not lost.  A run takes up a further task with a
\* request outstanding only if the stop file was removed by something other
\* than its own check, so: a stop file that is present while unattended
\* run 1 is in its loop (it was written after the run began, the run clears
\* the file when it starts) is removed only by run 1's own check, which
\* ends the run with the "stopped" notification, whatever another bart
\* process does meanwhile.
InItsLoop(p) ==
    /\ alive[p]
    /\ specific[p] = NoTask
    /\ pc[p] \in {"acquire", "recover_write", "loop", "wait", "ra_write", "spawn",
                  "agent", "err_write", "err_notify", "fin_write", "fin_notify"}

C36_StopNotLost ==
    [][(InItsLoop(1) /\ stopFile /\ ~stopFile')
          => (/\ pc[1] \in {"loop", "wait"}
              /\ pc'[1] = "finish"
              /\ lastNote'[1] = StoppedNote)]_vars

\* C37: a poll of the dependency wait that finds an eligible task, the poll
\* made at the 120-second mark included, takes the run back to the head of
\* its loop, where the task is selected, instead of stopping the run.
C37_FoundTaskContinues ==
    [][(/\ Polls
        /\ ~stopFile
        /\ findNextTask(doc, graph, filter[1]) # NoTask)
          => pc'[1] = "loop"]_vars

\* C38: the same-task critical notification goes out only for a task with
\* at least three recorded failures and no completion between them: when a
\* run records a task's error and sends the notification, the ledger holds
\* three error entries of that task and plan that no completed entry of the
\* task follows.  Resets of a task that had not failed add nothing to it.
C38_ThreeRealFailures ==
    [][(/\ Len(history') = Len(history) + 1
        /\ history'[Len(history')].event = "error"
        /\ lock' \in Procs
        /\ critical'[lock'] = "task")
       => LET e == history'[Len(history')]
              h == history'
              failures ==
                  {i \in 1..Len(h) :
                      /\ h[i].event = "error"
                      /\ h[i].task_id = e.task_id
                      /\ h[i].plan_slug = ThisPlan
                      /\ ~\E j \in (i + 1)..Len(h) :
                            /\ h[j].event = "completed"
                            /\ h[j].task_id = e.task_id
                            /\ h[j].plan_slug = ThisPlan}
          IN Cardinality(failures) >= CriticalThreshold]_vars


\* C39: a single unattended run without workstream filter and with
\* auto-continue, on a document of pending tasks whose dependencies all
\* exist and form no cycle, with every agent exiting 0 and nothing
\* interfering, eventually has every task completed and the process ended
\* with status 0, and stays so.
C39_RunsToCompletion ==
    <>[](/\ \A t \in Tasks : doc[t].status = "completed"
         /\ pc[1] = "dead"
         /\ exitStatus[1] = "0")

\* C39 happens: the run is at the head of its loop with a dependent task
\* still pending behind a completed one.
C39_Witness ==
    /\ pc[1] = "loop"
    /\ filter[1] = NoFilter
    /\ \E t \in Tasks : \E depId \in graph.deps[t] :
          /\ doc[t].status = "pending"
          /\ doc[depId].status = "completed"

\* C40: in the main loop of bart.sh a rate-limited attempt is not counted
\* as a failure.  When run_task has returned 175 the script goes on (to the
\* wait and the retry) instead of ending, and the failure counter is not
\* raised on account of that attempt.
C40_RateLimitNotFailure ==
    [][(shPc = "rate" /\ shPc' # "rate")
          => (/\ shExit' = "none"
              /\ CONSECUTIVE_FAILURES' <= CONSECUTIVE_FAILURES)]_vars
====
